---------------------------- MODULE Spec2Model ----------------------------
(***************************************************************************)
(* The parallel news processor (src/processor/main_parallel.py): the text  *)
(* normalizer, the keyword scorer, the document processor, the chunked     *)
(* file reader and the pool dispatcher.                                    *)
(*                                                                         *)
(* A Python str is a sequence of one-character strings.  A JSON value is a *)
(* record [type, s, fields]; a scalar (a field of a document, a field of a *)
(* processed record) is a record [type, s].                                *)
(***************************************************************************)
EXTENDS Naturals, Integers, Sequences, FiniteSets, Bags, TLC

(***************************************************************************)
(* Bounds of the model.                                                    *)
(***************************************************************************)
MaxFiles == 3

MaxWorkers == 2

MaxLines == 3

MaxChunkSize == 2

MaxFragments == 3

MaxRecords == 3

MaxDays == 3

MaxColcap == 2

MaxChars == 3

MaxStarts == 2

MaxMetrics == 2

MaxEntries == 4

VARIABLES
    files,          \* process_files_parallel: the input list, one content per path
    num_workers,    \* process_files_parallel: the size of the pool
    CHUNK_SIZE,     \* the module's CHUNK_SIZE (read from the environment)
    bound_keywords, \* the keyword list bound into process_func by partial()
    phase,          \* where process_files_parallel is
    taskq,          \* Pool: the tasks of map not taken yet (indices of files)
    procs,          \* Pool: what each worker process is running
    results_nested, \* pool.map: the result slot of each file
    all_results,    \* process_files_parallel: the flattened list
    all_src,        \* history: <<file, line>> of each item of all_results
    assigned,       \* history: the workers that took each file
    rfile,          \* the file one process_file_chunk call reads
    rst,            \* the locals of that call
    sc,             \* one count_keywords call: its text and its result
    df_processed,   \* analyzer: the processed records, as loaded
    df_colcap,      \* analyzer: the COLCAP series, as loaded
    daily_agg,      \* analyzer: what aggregate_by_date returned
    merged_df,      \* analyzer: what merge_with_colcap returned
    metrics,        \* analyzer: what calculate_metrics returned
    apc,            \* analyzer: the stage reached
    disk,           \* the data files: results.csv, COLCAP.csv, the outputs
    run,            \* one pipeline run: what each main returned and logged
    mc,             \* a MetricsCollector and its monitor threads
    scr,            \* a NoticiasRSSScraper and the feed it is reading
    ct              \* one text and what clean_text makes of it

poolVars == <<files, num_workers, phase, taskq, procs, results_nested,
              all_results, all_src, assigned>>

readerVars == <<rfile, rst>>

confVars == <<CHUNK_SIZE, bound_keywords>>

analyzerVars == <<df_processed, df_colcap, daily_agg, merged_df, metrics, apc>>

pipeVars == <<disk, run>>

otherVars == <<pipeVars, mc, scr, ct>>

vars == <<poolVars, confVars, readerVars, sc, analyzerVars, otherVars>>

(***************************************************************************)
(* Generic helpers on sequences.                                           *)
(***************************************************************************)
Range(s) == {s[i] : i \in DOMAIN s}

RECURSIVE FlattenSeq(_)
FlattenSeq(ss) ==
    IF ss = <<>> THEN <<>> ELSE Head(ss) \o FlattenSeq(Tail(ss))

IndexOf(s, c) == CHOOSE i \in DOMAIN s : s[i] = c

(***************************************************************************)
(* Characters.  str.lower, unidecode, str.isalnum and str.isspace on the   *)
(* characters the model's texts are written with.                          *)
(***************************************************************************)
UpperAscii ==
    <<"A", "B", "C", "D", "E", "F", "G", "H", "I", "J", "K", "L", "M",
      "N", "O", "P", "Q", "R", "S", "T", "U", "V", "W", "X", "Y", "Z">>

LowerAscii ==
    <<"a", "b", "c", "d", "e", "f", "g", "h", "i", "j", "k", "l", "m",
      "n", "o", "p", "q", "r", "s", "t", "u", "v", "w", "x", "y", "z">>

DigitChars == <<"0", "1", "2", "3", "4", "5", "6", "7", "8", "9">>

UpperAccented == <<"Á", "É", "Í", "Ó", "Ú", "Ñ">>

LowerAccented == <<"á", "é", "í", "ó", "ú", "ñ">>

AccentBase == <<"a", "e", "i", "o", "u", "n">>

SpaceChars == {" ", "\t", "\n"}

\* str.lower on one character
LowerChar(c) ==
    IF c \in Range(UpperAscii) THEN LowerAscii[IndexOf(UpperAscii, c)]
    ELSE IF c \in Range(UpperAccented)
         THEN LowerAccented[IndexOf(UpperAccented, c)]
         ELSE c

\* unidecode on one character: ASCII is kept, a letter with a diacritic
\* gives its base letter, the euro sign gives "EUR"
UnidecodeChar(c) ==
    IF c \in Range(LowerAccented)
    THEN <<AccentBase[IndexOf(LowerAccented, c)]>>
    ELSE IF c \in Range(UpperAccented)
         THEN <<UpperAscii[IndexOf(LowerAscii,
                               AccentBase[IndexOf(UpperAccented, c)])]>>
         ELSE IF c = "€" THEN <<"E", "U", "R">> ELSE <<c>>

isalnum(c) ==
    c \in Range(UpperAscii) \cup Range(LowerAscii) \cup Range(DigitChars)

isspace(c) == c \in SpaceChars

lower(text) == [i \in DOMAIN text |-> LowerChar(text[i])]

unidecode(text) == FlattenSeq([i \in DOMAIN text |-> UnidecodeChar(text[i])])

(***************************************************************************)
(* clean_text: lower-case, transliterate to ASCII, and replace every       *)
(* character that is neither alphanumeric nor whitespace by a space.       *)
(***************************************************************************)
clean_text(text) ==
    LET t == unidecode(lower(text))
    IN  [i \in DOMAIN t |->
            IF isalnum(t[i]) \/ isspace(t[i]) THEN t[i] ELSE " "]

(***************************************************************************)
(* str.split(): the maximal runs of non-whitespace characters, in order.   *)
(***************************************************************************)
RECURSIVE SplitFrom(_, _, _)
SplitFrom(t, i, word) ==
    IF i > Len(t)
    THEN IF word = <<>> THEN <<>> ELSE <<word>>
    ELSE IF isspace(t[i])
         THEN (IF word = <<>> THEN <<>> ELSE <<word>>)
                  \o SplitFrom(t, i + 1, <<>>)
         ELSE SplitFrom(t, i + 1, Append(word, t[i]))

split(t) == SplitFrom(t, 1, <<>>)

(***************************************************************************)
(* The keyword list.                                                       *)
(***************************************************************************)
KEYWORDS ==
    << <<"i", "n", "f", "l", "a", "c", "i", "o", "n">>,
       <<"i", "p", "c">>,
       <<"p", "i", "b">>,
       <<"c", "r", "e", "c", "i", "m", "i", "e", "n", "t", "o">>,
       <<"r", "e", "c", "e", "s", "i", "o", "n">>,
       <<"d", "e", "s", "e", "m", "p", "l", "e", "o">>,
       <<"c", "o", "n", "s", "u", "m", "o">>,
       <<"t", "a", "s", "a", " ", "d", "e", " ", "i", "n", "t", "e", "r", "e", "s">>,
       <<"t", "a", "s", "a", "s">>,
       <<"b", "a", "n", "c", "o", " ", "d", "e", " ", "l", "a", " ",
         "r", "e", "p", "u", "b", "l", "i", "c", "a">>,
       <<"f", "e", "d">>,
       <<"b", "o", "l", "s", "a">>,
       <<"a", "c", "c", "i", "o", "n", "e", "s">>,
       <<"m", "e", "r", "c", "a", "d", "o">>,
       <<"c", "o", "l", "c", "a", "p">>,
       <<"v", "o", "l", "a", "t", "i", "l", "i", "d", "a", "d">>,
       <<"d", "o", "l", "a", "r">>,
       <<"t", "r", "m">>,
       <<"d", "i", "v", "i", "s", "a", "s">>,
       <<"p", "e", "t", "r", "o", "l", "e", "o">>,
       <<"b", "r", "e", "n", "t">>,
       <<"o", "r", "o">>,
       <<"b", "a", "n", "c", "o">>,
       <<"c", "r", "e", "d", "i", "t", "o">>,
       <<"i", "n", "v", "e", "r", "s", "i", "o", "n">>,
       <<"c", "r", "i", "s", "i", "s">>,
       <<"r", "i", "e", "s", "g", "o">> >>

(***************************************************************************)
(* count_keywords: the number of whitespace-delimited words of the cleaned *)
(* text that are members of the keyword list.                              *)
(***************************************************************************)
\* a faulty variant of count_keywords: only the first keyword is looked for
count_keywords_first(text, keywords) ==
    LET words == split(clean_text(text))
    IN  Cardinality({i \in DOMAIN words : words[i] = keywords[1]})

count_keywords(text, keywords) ==
    LET words == split(clean_text(text))
    IN  Cardinality({i \in DOMAIN words : words[i] \in Range(keywords)})

(***************************************************************************)
(* str.count(sub): the non-overlapping occurrences of sub, found left to   *)
(* right, as the sequential processor counts its hits.                     *)
(***************************************************************************)
OccursAt(t, sub, i) ==
    /\ i + Len(sub) - 1 <= Len(t)
    /\ \A j \in 1..Len(sub) : t[i + j - 1] = sub[j]

RECURSIVE CountFrom(_, _, _)
CountFrom(t, sub, i) ==
    IF i + Len(sub) - 1 > Len(t) THEN 0
    ELSE IF OccursAt(t, sub, i)
         THEN 1 + CountFrom(t, sub, i + Len(sub))
         ELSE CountFrom(t, sub, i + 1)

StrCount(t, sub) == CountFrom(t, sub, 1)

RECURSIVE SumCounts(_, _, _)
SumCounts(t, keywords, k) ==
    IF k > Len(keywords) THEN 0
    ELSE StrCount(t, keywords[k]) + SumCounts(t, keywords, k + 1)

\* sum(text.count(k) for k in KEYWORDS)
hits(t, keywords) == SumCounts(t, keywords, 1)

(***************************************************************************)
(* JSON values and Python values.                                          *)
(***************************************************************************)
JStr(s) == [type |-> "str", s |-> s]

JInt(s) == [type |-> "int", s |-> s]

\* Python's None
None == [type |-> "None", s |-> <<>>]

\* the key is not in the dict
Absent == [type |-> "absent", s |-> <<>>]

NoFields == [id |-> Absent, date |-> Absent, text |-> Absent]

\* a JSON object with the keys "id", "date", "text" (Absent: no such key)
JObject(id, date, text) ==
    [type |-> "dict", s |-> <<>>,
     fields |-> [id |-> id, date |-> date, text |-> text]]

\* a JSON number: json.loads gives an int, not a dict
JNumber(s) == [type |-> "int", s |-> s, fields |-> NoFields]

\* dict.get(key, default)
Get(doc, key, default) ==
    IF doc.fields[key].type = "absent" THEN default ELSE doc.fields[key]

(***************************************************************************)
(* process_document.  Its outcome is a dict (the record), None, or an      *)
(* exception that leaves the function.                                     *)
(***************************************************************************)
NoRecord ==
    [date |-> None, doc_id |-> None, keyword_hits |-> 0,
     text_length |-> 0, word_count |-> 0]

ReturnDict(rec) == [tag |-> "dict", exc |-> "none", rec |-> rec]

ReturnNone == [tag |-> "None", exc |-> "none", rec |-> NoRecord]

Raise(exc) == [tag |-> "raise", exc |-> exc, rec |-> NoRecord]

\* the body of the try: doc.get of a value that is no dict, and
\* text.lower() of a value that is no str, raise AttributeError
process_document_try(doc, keywords) ==
    IF doc.type # "dict" THEN Raise("AttributeError")
    ELSE LET text == Get(doc, "text", JStr(<<>>))
         IN  IF text.type # "str" THEN Raise("AttributeError")
             ELSE ReturnDict(
                      [date |-> Get(doc, "date", None),
                       doc_id |-> Get(doc, "id", None),
                       keyword_hits |-> count_keywords(text.s, keywords),
                       text_length |-> Len(text.s),
                       word_count |-> Len(split(clean_text(text.s)))])

\* the handler: it logs doc.get('id'), which raises again when doc is no
\* dict, and returns None
process_document_except(doc) ==
    IF doc.type # "dict" THEN Raise("AttributeError") ELSE ReturnNone

process_document(doc, keywords) ==
    LET r == process_document_try(doc, keywords)
    IN  IF r.tag = "raise" THEN process_document_except(doc) ELSE r

\* `if result:` a record is a non-empty dict, None is falsy
Truthy(result) == result.tag = "dict"

(***************************************************************************)
(* Files.  A line is JSON text (with the value json.loads gives), text     *)
(* json.loads rejects, or bytes the utf-8 reader cannot decode.            *)
(***************************************************************************)
NullValue == [type |-> "null", s |-> <<>>, fields |-> NoFields]

JsonLine(v) == [kind |-> "json", val |-> v]

BadLine == [kind |-> "bad", val |-> NullValue]

ReadErrLine == [kind |-> "readerr", val |-> NullValue]

ExistingFile(lines) == [exists |-> TRUE, lines |-> lines]

MissingFile == [exists |-> FALSE, lines |-> <<>>]

(***************************************************************************)
(* process_file_chunk.  The locals of one call: pc, the number of the line *)
(* read next, chunk, results, the exception being propagated, and the      *)
(* returned list.  chunk_lines, src, ret_src and handed are history: the   *)
(* line numbers of the documents in chunk, of the records in results and   *)
(* in the returned list, and of the documents handed to process_document.  *)
(***************************************************************************)
ReaderStart ==
    [pc |-> "open", pos |-> 1, chunk |-> <<>>, chunk_lines |-> <<>>,
     results |-> <<>>, src |-> <<>>, handed |-> <<>>, raised |-> "none",
     caught |-> "none", ret |-> <<>>, ret_src |-> <<>>]

\* a faulty variant of ProcessChunk: the record is put in front of results
RECURSIVE ProcessChunkPrepend(_, _, _)
ProcessChunkPrepend(st, k, keywords) ==
    IF k > Len(st.chunk) THEN st
    ELSE LET result == process_document(st.chunk[k], keywords)
             st1 == [st EXCEPT !.handed = Append(@, st.chunk_lines[k])]
         IN  IF result.tag = "raise"
             THEN [st1 EXCEPT !.raised = result.exc]
             ELSE IF Truthy(result)
                  THEN ProcessChunkPrepend(
                           [st1 EXCEPT
                               !.results = <<result.rec>> \o @,
                               !.src = <<st.chunk_lines[k]>> \o @],
                           k + 1, keywords)
                  ELSE ProcessChunkPrepend(st1, k + 1, keywords)

\* for document in chunk: result = process_document(...); if result: append
RECURSIVE ProcessChunk(_, _, _)
ProcessChunk(st, k, keywords) ==
    IF k > Len(st.chunk) THEN st
    ELSE LET result == process_document(st.chunk[k], keywords)
             st1 == [st EXCEPT !.handed = Append(@, st.chunk_lines[k])]
         IN  IF result.tag = "raise"
             THEN [st1 EXCEPT !.raised = result.exc]
             ELSE IF Truthy(result)
                  THEN ProcessChunk(
                           [st1 EXCEPT
                               !.results = Append(@, result.rec),
                               !.src = Append(@, st.chunk_lines[k])],
                           k + 1, keywords)
                  ELSE ProcessChunk(st1, k + 1, keywords)

\* a faulty variant of JSONDecodeErrorHandler: the handler also empties the chunk
JSONDecodeErrorDropsChunk(st) ==
    [st EXCEPT !.pos = @ + 1, !.chunk = <<>>, !.chunk_lines = <<>>]

\* except json.JSONDecodeError: log and continue with the next line
JSONDecodeErrorHandler(st) == [st EXCEPT !.pos = @ + 1]

\* a faulty variant of ExceptionHandler: the exception is not caught and leaves
\* process_file_chunk
ExceptionNotCaught(st) == [st EXCEPT !.pc = "done"]

\* except Exception: log and return []
ExceptionHandler(st) ==
    [st EXCEPT !.pc = "done", !.caught = st.raised, !.raised = "none",
               !.ret = <<>>, !.ret_src = <<>>]

\* return results
ReturnResults(st) ==
    [st EXCEPT !.pc = "done", !.ret = st.results, !.ret_src = st.src]

\* the try of one iteration: json.loads, chunk.append, and the processing
\* of the chunk once it holds chunk_size documents
LoopBody(st, line, keywords, chunk_size) ==
    IF line.kind = "bad" THEN JSONDecodeErrorHandler(st)
    ELSE LET st1 == [st EXCEPT !.chunk = Append(@, line.val),
                               !.chunk_lines = Append(@, st.pos)]
         IN  IF Len(st1.chunk) >= chunk_size
             THEN LET st2 == ProcessChunk(st1, 1, keywords)
                  IN  IF st2.raised # "none" THEN st2
                      ELSE [st2 EXCEPT !.chunk = <<>>, !.chunk_lines = <<>>,
                                       !.pos = @ + 1]
             ELSE [st1 EXCEPT !.pos = @ + 1]

\* open(file_path): FileNotFoundError when the file is missing
OpenStep(file, st) ==
    IF file.exists THEN [st EXCEPT !.pc = "loop"]
    ELSE ExceptionHandler([st EXCEPT !.raised = "FileNotFoundError"])

\* a faulty variant of LineStep: after an exception the call returns the
\* records it has so far
LineStepKeepsRecords(file, st, keywords, chunk_size) ==
    LET line == file.lines[st.pos]
        st1 == IF line.kind = "readerr"
               THEN [st EXCEPT !.raised = "UnicodeDecodeError"]
               ELSE LoopBody(st, line, keywords, chunk_size)
    IN  IF st1.raised # "none"
        THEN [ExceptionHandler(st1) EXCEPT !.ret = st1.results,
                                           !.ret_src = st1.src]
        ELSE st1

\* one iteration of `for i, line in enumerate(f, 1)`: reading the line may
\* raise UnicodeDecodeError; an exception that leaves the iteration is
\* caught by the outer handler
LineStep(file, st, keywords, chunk_size) ==
    LET line == file.lines[st.pos]
        st1 == IF line.kind = "readerr"
               THEN [st EXCEPT !.raised = "UnicodeDecodeError"]
               ELSE LoopBody(st, line, keywords, chunk_size)
    IN  IF st1.raised # "none" THEN ExceptionHandler(st1) ELSE st1

\* a faulty variant of FinalStep: the final partial chunk is not processed
FinalStepNoFlush(st, keywords) == ReturnResults(st)

\* after the loop: the final chunk, then return results
FinalStep(st, keywords) ==
    LET st1 == IF st.chunk # <<>> THEN ProcessChunk(st, 1, keywords) ELSE st
    IN  IF st1.raised # "none" THEN ExceptionHandler(st1)
        ELSE ReturnResults(st1)

ReaderStep(file, st, keywords, chunk_size) ==
    IF st.pc = "open" THEN OpenStep(file, st)
    ELSE IF st.pos <= Len(file.lines)
         THEN LineStep(file, st, keywords, chunk_size)
         ELSE FinalStep(st, keywords)

RECURSIVE RunReader(_, _, _, _)
RunReader(file, st, keywords, chunk_size) ==
    IF st.pc = "done" THEN st
    ELSE RunReader(file, ReaderStep(file, st, keywords, chunk_size),
                   keywords, chunk_size)

\* the whole call, with the module's CHUNK_SIZE
process_file_chunk(file_path, keywords) ==
    RunReader(file_path, ReaderStart, keywords, CHUNK_SIZE)

(***************************************************************************)
(* The documents and lines the model reads.                                *)
(***************************************************************************)
DocA == JObject(JStr(<<"1">>), JStr(<<"2", "0", "2", "4", "-", "0", "1", "-", "0", "1">>), JStr(<<"L", "a", " ", "i", "n", "f", "l", "a", "c", "i", "ó", "n", " ", "s", "u", "b", "e">>))

DocB == JObject(JStr(<<"2">>), JStr(<<"2", "0", "2", "4", "-", "0", "1", "-", "0", "2">>), JStr(<<"E", "l", " ", "d", "o", "l", "a", "r", " ", "c", "a", "e">>))

DocNoText == JObject(JStr(<<"3">>), JStr(<<"2", "0", "2", "4", "-", "0", "1", "-", "0", "2">>), Absent)

DocNoDate == JObject(JStr(<<"4">>), Absent, JStr(<<"p", "i", "b">>))

DocBadDate == JObject(JStr(<<"5">>), JStr(<<"2", "0", "2", "4", "-", "0", "2", "-", "3", "0">>), JStr(<<"o", "r", "o">>))

DocNumText == JObject(JStr(<<"6">>), JStr(<<"2", "0", "2", "4", "-", "0", "1", "-", "0", "1">>), JInt(<<"4", "2">>))

Lines ==
    {JsonLine(DocA), JsonLine(DocB), JsonLine(DocNoText),
     JsonLine(DocNoDate), JsonLine(DocBadDate), JsonLine(DocNumText),
     JsonLine(JNumber(<<"5">>)), BadLine, ReadErrLine}

SeqsUpTo(S, n) == UNION {[1..k -> S] : k \in 0..n}

ReaderFiles == {MissingFile} \cup {ExistingFile(l) : l \in SeqsUpTo(Lines, MaxLines)}

(***************************************************************************)
(* process_files_parallel.  Pool(processes=num_workers) starts num_workers *)
(* worker processes; pool.map makes one task per file (its chunksize is 1  *)
(* as long as len(files) <= 4 * num_workers), the idle workers take the    *)
(* tasks in order, each worker runs process_file_chunk on its file in its  *)
(* own process, and map returns the results in the order of files once     *)
(* every task has completed.                                               *)
(***************************************************************************)
PoolFiles ==
    {MissingFile,
     ExistingFile(<<JsonLine(DocB), BadLine, JsonLine(DocA)>>),
     ExistingFile(<<JsonLine(DocA), ReadErrLine>>)}

\* a result slot of map: not completed yet
NoResult == [ready |-> FALSE, raised |-> "none", value |-> <<>>, src |-> <<>>]

\* the slot of a completed task: the returned list, or the exception that
\* left process_file_chunk
TaskResult(st) ==
    [ready |-> TRUE, raised |-> st.raised, value |-> st.ret, src |-> st.ret_src]

\* a faulty variant of PoolProcesses: the pool starts a process per slot
AllSlots == 1..MaxWorkers

\* the worker processes of Pool(processes=num_workers)
PoolProcesses == 1..num_workers

Busy == {w \in DOMAIN procs : procs[w] # 0}

ReaderIdle == rfile = MissingFile /\ rst = ReaderStart

\* pd.DataFrame(): no column, no row
EmptyFrame == [columns |-> {}, rows |-> <<>>]

\* the analyzer has not run
AnalyzerIdle ==
    /\ df_processed = EmptyFrame
    /\ df_colcap = EmptyFrame
    /\ daily_agg = EmptyFrame
    /\ merged_df = EmptyFrame
    /\ metrics = <<>>
    /\ apc = "idle"

\* no data file is there and nothing was run
NoFile == [exists |-> FALSE]

DiskStart ==
    [results |-> NoFile, colcap |-> NoFile, written |-> {}, fault |-> FALSE]

RunStart ==
    [processor |-> "none", analyze |-> "none", main |-> "none",
     api |-> FALSE, trail |-> <<>>]

PipeIdle == disk = DiskStart /\ run = RunStart

\* MetricsCollector.__init__
\* monitor_thread is the number of a thread in threads, 0 for None; threads
\* holds the position of every monitor thread started so far; caller is the
\* position of the thread that calls start_monitoring and stop_monitoring;
\* stopped and len_at_stop are history: stop_monitoring has returned and
\* start_monitoring was not called since, and the length of system_metrics
\* when it returned
CollectorStart ==
    [monitoring |-> FALSE, monitor_thread |-> 0, system_metrics |-> <<>>,
     threads |-> <<>>, caller |-> "idle", stopped |-> FALSE,
     len_at_stop |-> 0, starts |-> 0]

\* NoticiasRSSScraper.__init__
\* feed is the number of the feed being read (0: none yet), pos the number
\* of its entries seen so far
ScraperStart ==
    [noticias |-> <<>>, doc_id |-> 1, feed |-> 0, pos |-> 0,
     pc |-> "next", raised |-> "none"]

\* clean_text has not been called
CleanStart ==
    [fn |-> "none", text |-> <<>>, cleaned |-> <<>>, again |-> <<>>,
     calls |-> 0]

OthersIdle ==
    PipeIdle /\ mc = CollectorStart /\ scr = ScraperStart /\ ct = CleanStart

ScoreStart ==
    [text |-> <<>>, nfrag |-> 0, scored |-> FALSE, hits |-> 0,
     added |-> FALSE, prev_hits |-> 0]

Init ==
    /\ files \in SeqsUpTo(PoolFiles, MaxFiles)
    /\ num_workers \in 1..MaxWorkers
    /\ CHUNK_SIZE \in 1..MaxChunkSize
    /\ phase = "start"
    /\ taskq = <<>>
    /\ procs = [w \in 1..MaxWorkers |-> 0]
    /\ results_nested = [i \in DOMAIN files |-> NoResult]
    /\ all_results = <<>>
    /\ all_src = <<>>
    /\ assigned = [i \in DOMAIN files |-> <<>>]
    /\ bound_keywords = KEYWORDS
    /\ ReaderIdle
    /\ sc = ScoreStart
    /\ AnalyzerIdle
    /\ OthersIdle

\* pool.map(process_func, files): one task per file, in the order of files
PoolMap ==
    /\ phase = "start"
    /\ phase' = "map"
    /\ taskq' = [i \in DOMAIN files |-> i]
    /\ UNCHANGED <<files, num_workers, procs, results_nested, all_results,
                   all_src, assigned, confVars, readerVars, sc, analyzerVars, otherVars>>

\* a faulty variant of TakeTask: the task stays in the queue
TakeTaskNoPop(w) ==
    /\ phase = "map"
    /\ w \in PoolProcesses
    /\ procs[w] = 0
    /\ taskq # <<>>
    /\ procs' = [procs EXCEPT ![w] = Head(taskq)]
    /\ assigned' = [assigned EXCEPT ![Head(taskq)] = Append(@, w)]
    /\ UNCHANGED <<files, num_workers, phase, taskq, results_nested,
                   all_results, all_src, confVars, readerVars, sc, analyzerVars, otherVars>>

\* an idle worker process takes the next task off the queue
TakeTask(w) ==
    /\ phase = "map"
    /\ w \in PoolProcesses
    /\ procs[w] = 0
    /\ taskq # <<>>
    /\ procs' = [procs EXCEPT ![w] = Head(taskq)]
    /\ taskq' = Tail(taskq)
    /\ assigned' = [assigned EXCEPT ![Head(taskq)] = Append(@, w)]
    /\ UNCHANGED <<files, num_workers, phase, results_nested, all_results,
                   all_src, confVars, readerVars, sc, analyzerVars, otherVars>>

\* a faulty variant of FinishTask: the worker takes the first keyword off the
\* list it was given, and the list is the one every worker reads
FinishTaskPopsKeyword(w) ==
    /\ phase = "map"
    /\ procs[w] # 0
    /\ results_nested' =
           [results_nested EXCEPT
               ![procs[w]] = TaskResult(process_file_chunk(files[procs[w]], bound_keywords))]
    /\ procs' = [procs EXCEPT ![w] = 0]
    /\ bound_keywords' = Tail(bound_keywords)
    /\ UNCHANGED <<files, num_workers, phase, taskq, all_results, all_src,
                   assigned, CHUNK_SIZE, readerVars, sc,
                   analyzerVars, otherVars>>

\* the worker completes process_func(files[i]) and the result goes to slot i
FinishTask(w) ==
    /\ phase = "map"
    /\ procs[w] # 0
    /\ results_nested' =
           [results_nested EXCEPT
               ![procs[w]] = TaskResult(process_file_chunk(files[procs[w]], bound_keywords))]
    /\ procs' = [procs EXCEPT ![w] = 0]
    /\ UNCHANGED <<files, num_workers, phase, taskq, all_results, all_src,
                   assigned, confVars, readerVars, sc,
                   analyzerVars, otherVars>>

\* map has every result
MapComplete == \A i \in DOMAIN files : results_nested[i].ready

\* a faulty variant of Flatten: the sublists are joined last file first
FlattenReversed(nested) ==
    FlattenSeq([i \in DOMAIN nested |-> nested[Len(nested) + 1 - i].value])

\* [item for sublist in results_nested for item in sublist]
Flatten(nested) == FlattenSeq([i \in DOMAIN nested |-> nested[i].value])

FlattenSrc(nested) ==
    FlattenSeq([i \in DOMAIN nested |->
                   [k \in DOMAIN nested[i].src |-> <<i, nested[i].src[k]>>]])

\* a faulty variant of MapJoin: it returns once every task was handed out, without
\* waiting for the tasks that are still running
MapJoinEarly ==
    /\ phase = "map"
    /\ taskq = <<>>
    /\ IF \E i \in DOMAIN files : results_nested[i].raised # "none"
       THEN /\ phase' = "raised"
            /\ UNCHANGED <<all_results, all_src>>
       ELSE /\ phase' = "done"
            /\ all_results' = Flatten(results_nested)
            /\ all_src' = FlattenSrc(results_nested)
    /\ UNCHANGED <<files, num_workers, taskq, procs, results_nested,
                   assigned, confVars, readerVars, sc,
                   analyzerVars, otherVars>>

\* map returns (or re-raises the exception of a task), the pool is closed
\* and the results are flattened
MapJoin ==
    /\ phase = "map"
    /\ MapComplete
    /\ IF \E i \in DOMAIN files : results_nested[i].raised # "none"
       THEN /\ phase' = "raised"
            /\ UNCHANGED <<all_results, all_src>>
       ELSE /\ phase' = "done"
            /\ all_results' = Flatten(results_nested)
            /\ all_src' = FlattenSrc(results_nested)
    /\ UNCHANGED <<files, num_workers, taskq, procs, results_nested,
                   assigned, confVars, readerVars, sc,
                   analyzerVars, otherVars>>

Next ==
    \/ PoolMap
    \/ \E w \in 1..MaxWorkers : TakeTask(w)
    \/ \E w \in 1..MaxWorkers : FinishTask(w)
    \/ MapJoin

Spec == Init /\ [][Next]_vars

\* files for the fan-in: two files whose record lists differ, and an empty
\* file
FanInFiles ==
    {ExistingFile(<<JsonLine(DocA)>>),
     ExistingFile(<<JsonLine(DocB), BadLine, JsonLine(DocA)>>),
     ExistingFile(<<>>)}

InitFanIn ==
    /\ files \in SeqsUpTo(FanInFiles, MaxFiles)
    /\ num_workers \in 1..MaxWorkers
    /\ CHUNK_SIZE \in 1..MaxChunkSize
    /\ phase = "start"
    /\ taskq = <<>>
    /\ procs = [w \in 1..MaxWorkers |-> 0]
    /\ results_nested = [i \in DOMAIN files |-> NoResult]
    /\ all_results = <<>>
    /\ all_src = <<>>
    /\ assigned = [i \in DOMAIN files |-> <<>>]
    /\ bound_keywords = KEYWORDS
    /\ ReaderIdle
    /\ sc = ScoreStart
    /\ AnalyzerIdle
    /\ OthersIdle

SpecFanIn == InitFanIn /\ [][Next]_vars

(***************************************************************************)
(* One call of process_file_chunk, line by line.                           *)
(***************************************************************************)
PoolIdle ==
    /\ files = <<>>
    /\ num_workers = 1
    /\ phase = "start"
    /\ taskq = <<>>
    /\ procs = [w \in 1..MaxWorkers |-> 0]
    /\ results_nested = <<>>
    /\ all_results = <<>>
    /\ all_src = <<>>
    /\ assigned = <<>>

InitReader ==
    /\ rfile \in ReaderFiles
    /\ CHUNK_SIZE \in 1..MaxChunkSize
    /\ rst = ReaderStart
    /\ bound_keywords = KEYWORDS
    /\ PoolIdle
    /\ sc = ScoreStart
    /\ AnalyzerIdle
    /\ OthersIdle

ROpen ==
    /\ rst.pc = "open"
    /\ rst' = OpenStep(rfile, rst)
    /\ UNCHANGED <<rfile, confVars, poolVars, sc, analyzerVars, otherVars>>

RLine ==
    /\ rst.pc = "loop"
    /\ rst.pos <= Len(rfile.lines)
    /\ rst' = LineStep(rfile, rst, bound_keywords, CHUNK_SIZE)
    /\ UNCHANGED <<rfile, confVars, poolVars, sc, analyzerVars, otherVars>>

RFinal ==
    /\ rst.pc = "loop"
    /\ rst.pos > Len(rfile.lines)
    /\ rst' = FinalStep(rst, bound_keywords)
    /\ UNCHANGED <<rfile, confVars, poolVars, sc, analyzerVars, otherVars>>

NextReader == ROpen \/ RLine \/ RFinal

SpecReader == InitReader /\ [][NextReader]_vars

(***************************************************************************)
(* One call of count_keywords on a text put together from fragments.       *)
(***************************************************************************)
Fragments ==
    {<<"b", "a", "n", "c", "o">>, <<" ", "d", "e", " ", "l", "a", " ">>, <<"r", "e", "p", "u", "b", "l", "i", "c", "a">>,
     <<"t", "a", "s", "a">>, <<" ", "d", "e", " ">>, <<"i", "n", "t", "e", "r", "e", "s">>,
     <<"s">>, <<"p", "i", "b">>, <<" ">>,
     <<"I", "n", "f", "l", "a", "c", "i", "ó", "n">>, <<",">>}

InitScore ==
    /\ sc = ScoreStart
    /\ CHUNK_SIZE = 1
    /\ bound_keywords = KEYWORDS
    /\ PoolIdle
    /\ ReaderIdle
    /\ AnalyzerIdle
    /\ OthersIdle

SAppend(f) ==
    /\ ~sc.scored
    /\ sc.nfrag < MaxFragments
    /\ sc' = [sc EXCEPT !.text = @ \o f, !.nfrag = @ + 1]
    /\ UNCHANGED <<confVars, poolVars, readerVars, analyzerVars, otherVars>>

SScore ==
    /\ ~sc.scored
    /\ sc' = [sc EXCEPT !.scored = TRUE,
                        !.hits = count_keywords(sc.text, bound_keywords)]
    /\ UNCHANGED <<confVars, poolVars, readerVars, analyzerVars, otherVars>>

\* a second call of count_keywords, on the text of the first call with one
\* more occurrence of the keyword k written after it
SAddOccurrence(k) ==
    /\ sc.scored
    /\ ~sc.added
    /\ k \in Range(bound_keywords)
    /\ sc' = [sc EXCEPT !.text = @ \o k, !.added = TRUE, !.prev_hits = sc.hits,
                        !.hits = count_keywords(sc.text \o k, bound_keywords)]
    /\ UNCHANGED <<confVars, poolVars, readerVars, analyzerVars, otherVars>>

NextScore ==
    \/ \E f \in Fragments : SAppend(f)
    \/ SScore
    \/ \E k \in Range(KEYWORDS) : SAddOccurrence(k)

SpecScore == InitScore /\ [][NextScore]_vars

(***************************************************************************)
(* The analyzer's data frames.  A frame has its column names and its rows  *)
(* in order; a row is a record of cells.  Dates are day numbers, a missing *)
(* date is NaT and a missing number is NaN.                                *)
(***************************************************************************)
NaT == 0

NaN == -1

Frame(cols, rows) == [columns |-> cols, rows |-> rows]

\* DataFrame.empty: one of the axes has length 0
empty(df) == df.columns = {} \/ df.rows = <<>>

RECURSIVE SeqSum(_)
SeqSum(s) == IF s = <<>> THEN 0 ELSE Head(s) + SeqSum(Tail(s))

\* the members of a set of day numbers, ascending
RECURSIVE SortedSeq(_)
SortedSeq(S) ==
    IF S = {} THEN <<>>
    ELSE LET m == CHOOSE x \in S : \A y \in S : x <= y
         IN  <<m>> \o SortedSeq(S \ {m})

\* the items of a sequence, each once, in the order they first appear
RECURSIVE Unique(_)
Unique(s) ==
    IF s = <<>> THEN <<>>
    ELSE LET init == Unique(SubSeq(s, 1, Len(s) - 1))
             x == s[Len(s)]
         IN  IF x \in Range(init) THEN init ELSE Append(init, x)

\* a faulty variant of GroupKeys: the groups come in the order their date first
\* appears in the input (groupby with sort=False)
GroupKeysAsSeen(df) ==
    Unique(SelectSeq([i \in DOMAIN df.rows |-> df.rows[i].date],
                     LAMBDA d : d # NaT))

\* groupby('date'): the group keys are the dates of the rows, ascending; a
\* row whose date is NaT is in no group
GroupKeys(df) == SortedSeq({df.rows[i].date : i \in DOMAIN df.rows} \ {NaT})

\* the rows of the group of date d, in input order
Group(df, d) == SelectSeq(df.rows, LAMBDA r : r.date = d)

\* 'count': the cells of the column that are not null
AggCount(cells) == Len(SelectSeq(cells, LAMBDA c : c # NaN))

\* a faulty variant of AggSum: the last cell of the group
AggLast(cells) == cells[Len(cells)]

\* 'sum'
AggSum(cells) == SeqSum(cells)

AggColumns == {"date", "docs_count", "total_keyword_hits"}

aggregate_by_date(df) ==
    IF empty(df) THEN EmptyFrame
    ELSE IF ~({"date", "doc_id", "keyword_hits"} \subseteq df.columns)
    THEN EmptyFrame
    ELSE LET keys == GroupKeys(df)
             Row(d) ==
                 LET g == Group(df, d)
                 IN  [date |-> d,
                      docs_count |->
                          AggCount([i \in DOMAIN g |-> g[i].doc_id]),
                      total_keyword_hits |->
                          AggSum([i \in DOMAIN g |-> g[i].keyword_hits])]
         IN  Frame(AggColumns, [k \in DOMAIN keys |-> Row(keys[k])])

(***************************************************************************)
(* aggregate_by_date on the processed records load_processed_data returned.*)
(***************************************************************************)
ProcessedColumns == {"date", "doc_id", "keyword_hits"}

\* a processed record as read back from results.csv: the date and the
\* doc_id are missing when the document had none
ProcessedRecords ==
    [date : {NaT, 1, 2}, doc_id : {NaN, 1}, keyword_hits : {1, 2}]

ProcessedFrames ==
    {EmptyFrame} \cup
    {Frame(ProcessedColumns, r) :
        r \in SeqsUpTo(ProcessedRecords, MaxRecords) \ {<<>>}}

InitAggregate ==
    /\ df_processed \in ProcessedFrames
    /\ df_colcap = EmptyFrame
    /\ daily_agg = EmptyFrame
    /\ merged_df = EmptyFrame
    /\ metrics = <<>>
    /\ apc = "loaded"
    /\ CHUNK_SIZE = 1
    /\ bound_keywords = KEYWORDS
    /\ PoolIdle
    /\ ReaderIdle
    /\ sc = ScoreStart
    /\ OthersIdle

Aggregate ==
    /\ apc = "loaded"
    /\ daily_agg' = aggregate_by_date(df_processed)
    /\ apc' = "aggregated"
    /\ UNCHANGED <<df_processed, df_colcap, merged_df, metrics, confVars,
                   poolVars, readerVars, sc, otherVars>>

NextAggregate == Aggregate

SpecAggregate == InitAggregate /\ [][NextAggregate]_vars

(***************************************************************************)
(* merge_with_colcap and calculate_metrics.                                *)
(***************************************************************************)
\* one row of the left merge: the cells of the aggregate row and the close
MergedRow(l, close) ==
    [date |-> l.date, docs_count |-> l.docs_count,
     total_keyword_hits |-> l.total_keyword_hits, colcap_close |-> close]

\* pd.merge(daily_agg, df_colcap, on='date', how='left'): the rows of the left
\* frame in their order, each joined with every row of the right frame that
\* has its date, in the right frame's order, or with a null close when the
\* right frame has none
LeftMerge(left, right) ==
    LET Joined(l) ==
            LET m == SelectSeq(right.rows, LAMBDA r : r.date = l.date)
            IN  IF m = <<>> THEN <<MergedRow(l, NaN)>>
                ELSE [i \in DOMAIN m |-> MergedRow(l, m[i].colcap_close)]
    IN  Frame(left.columns \cup right.columns,
              FlattenSeq([k \in DOMAIN left.rows |-> Joined(left.rows[k])]))

merge_with_colcap(agg, colcap) ==
    IF empty(agg) THEN EmptyFrame
    ELSE IF empty(colcap) THEN agg
    ELSE IF "date" \notin colcap.columns THEN agg
    ELSE LeftMerge(agg, colcap)

\* a float: numerator and denominator in lowest terms; 0/0 is nan
RECURSIVE GCD(_, _)
GCD(a, b) == IF b = 0 THEN a ELSE GCD(b, a % b)

Abs(x) == IF x < 0 THEN -x ELSE x

Float(num, den) ==
    LET g == GCD(Abs(num), Abs(den))
    IN  IF g = 0 THEN <<0, 0>>
        ELSE IF den < 0 THEN <<(-num) \div g, (-den) \div g>>
        ELSE <<num \div g, den \div g>>

isnan(f) == f[2] = 0

Zero == Float(0, 1)

\* Series.mean()
mean(cells) == Float(SeqSum(cells), Len(cells))

SeqMin(cells) == CHOOSE x \in Range(cells) : \A y \in Range(cells) : x <= y

SeqMax(cells) == CHOOSE x \in Range(cells) : \A y \in Range(cells) : x >= y

Products(xs, ys) == [i \in DOMAIN xs |-> xs[i] * ys[i]]

\* Series.corr: Pearson's r of the pairs, nan when a series has no variance.
\* r is held as its square with the sign of r: cov^2 / (var_x var_y)
corr(xs, ys) ==
    LET n == Len(xs)
        cov == n * SeqSum(Products(xs, ys)) - SeqSum(xs) * SeqSum(ys)
        vx == n * SeqSum(Products(xs, xs)) - SeqSum(xs) * SeqSum(xs)
        vy == n * SeqSum(Products(ys, ys)) - SeqSum(ys) * SeqSum(ys)
    IN  IF vx * vy = 0 THEN Float(0, 0)
        ELSE Float((IF cov < 0 THEN -1 ELSE 1) * cov * cov, vx * vy)

\* a faulty variant of dropna: no row is dropped
KeepAll(df) == df.rows

\* merged_df.dropna(subset=['colcap_close'])
dropna(df) == SelectSeq(df.rows, LAMBDA r : r.colcap_close # NaN)

\* a faulty variant of ColcapMetrics: the entries are written for any number of
\* rows
ColcapMetricsAlways(valid_data) ==
    LET hits_col == [i \in DOMAIN valid_data |-> valid_data[i].total_keyword_hits]
        close_col == [i \in DOMAIN valid_data |-> valid_data[i].colcap_close]
        correlation == corr(hits_col, close_col)
    IN  ("correlation_keywords_colcap" :>
             (IF ~isnan(correlation) THEN correlation ELSE Zero))
        @@ ("days_with_colcap" :> Len(valid_data))

\* the entries of the report that are written when at least 2 rows have a
\* close
ColcapMetrics(valid_data) ==
    IF Len(valid_data) >= 2
    THEN LET hits_col == [i \in DOMAIN valid_data |-> valid_data[i].total_keyword_hits]
             close_col == [i \in DOMAIN valid_data |-> valid_data[i].colcap_close]
             correlation == corr(hits_col, close_col)
         IN  ("correlation_keywords_colcap" :>
                  (IF ~isnan(correlation) THEN correlation ELSE Zero))
             @@ ("average_colcap" :> mean(close_col))
             @@ ("colcap_min" :> SeqMin(close_col))
             @@ ("colcap_max" :> SeqMax(close_col))
             @@ ("days_with_colcap" :> Len(valid_data))
    ELSE <<>>

calculate_metrics(df) ==
    IF empty(df) THEN <<>>
    ELSE LET docs == [i \in DOMAIN df.rows |-> df.rows[i].docs_count]
             kw == [i \in DOMAIN df.rows |-> df.rows[i].total_keyword_hits]
             dates == [i \in DOMAIN df.rows |-> df.rows[i].date]
         IN  ("total_documents" :> SeqSum(docs))
             @@ ("total_keywords" :> SeqSum(kw))
             @@ ("date_range" :> <<SeqMin(dates), SeqMax(dates)>>)
             @@ ("days_analyzed" :> Len(df.rows))
             @@ ("average_docs_per_day" :> mean(docs))
             @@ ("average_keywords_per_day" :> mean(kw))
             @@ (IF "colcap_close" \in df.columns
                 THEN ColcapMetrics(dropna(df))
                 ELSE <<>>)

(***************************************************************************)
(* merge_with_colcap and calculate_metrics on a daily aggregate and the    *)
(* COLCAP series load_colcap_data returned.                                *)
(***************************************************************************)
\* what aggregate_by_date can return: no row, or one row per day of a set of
\* days, ascending
DailyAggs ==
    {EmptyFrame} \cup
    UNION {{Frame(AggColumns,
                  [k \in DOMAIN SortedSeq(D) |->
                      [date |-> SortedSeq(D)[k],
                       docs_count |-> f[SortedSeq(D)[k]][1],
                       total_keyword_hits |-> f[SortedSeq(D)[k]][2]]]) :
               f \in [D -> {1, 2} \X {1, 2}]} :
           D \in SUBSET (1..MaxDays)}

ColcapColumns == {"date", "colcap_close"}

\* a row of COLCAP.csv; the close is missing on a day with no quote
ColcapRecords == [date : {1, 2}, colcap_close : {NaN, 100, 110}]

ColcapFrames ==
    {EmptyFrame} \cup
    {Frame(ColcapColumns, r) :
        r \in SeqsUpTo(ColcapRecords, MaxColcap) \ {<<>>}}

InitMerge ==
    /\ df_processed = EmptyFrame
    /\ df_colcap \in ColcapFrames
    /\ daily_agg \in DailyAggs
    /\ merged_df = EmptyFrame
    /\ metrics = <<>>
    /\ apc = "aggregated"
    /\ CHUNK_SIZE = 1
    /\ bound_keywords = KEYWORDS
    /\ PoolIdle
    /\ ReaderIdle
    /\ sc = ScoreStart
    /\ OthersIdle

Merge ==
    /\ apc = "aggregated"
    /\ merged_df' = merge_with_colcap(daily_agg, df_colcap)
    /\ apc' = "merged"
    /\ UNCHANGED <<df_processed, df_colcap, daily_agg, metrics, confVars,
                   poolVars, readerVars, sc, otherVars>>

Metrics ==
    /\ apc = "merged"
    /\ metrics' = calculate_metrics(merged_df)
    /\ apc' = "measured"
    /\ UNCHANGED <<df_processed, df_colcap, daily_agg, merged_df, confVars,
                   poolVars, readerVars, sc, otherVars>>

NextMerge == Merge \/ Metrics

SpecMerge == InitMerge /\ [][NextMerge]_vars

(***************************************************************************)
(* What the claims are stated with.                                        *)
(***************************************************************************)
\* the records of the JSON lines that process_document turns into a record,
\* in the order of the lines: every other line is skipped on its own
RECURSIVE IsolatedRecords(_)
IsolatedRecords(lines) ==
    IF lines = <<>> THEN <<>>
    ELSE LET l == Head(lines)
             r == process_document(l.val, KEYWORDS)
         IN  (IF l.kind = "json" /\ r.tag = "dict" THEN <<r.rec>> ELSE <<>>)
                 \o IsolatedRecords(Tail(lines))

\* the multiset of the items of a list
BagOfSeq(s) == [x \in Range(s) |-> Cardinality({i \in DOMAIN s : s[i] = x})]

Occurrences(s, x) == Cardinality({i \in DOMAIN s : s[i] = x})

AllLinesParse(file) ==
    file.exists /\ \A i \in DOMAIN file.lines : file.lines[i].kind = "json"

IsObjectLine(l) == l.kind = "json" /\ l.val.type = "dict"

OnlyBadOrObjectLines(file) ==
    /\ file.exists
    /\ \A i \in DOMAIN file.lines :
           file.lines[i].kind = "bad" \/ IsObjectLine(file.lines[i])

Unreadable(file) ==
    ~file.exists \/ \E i \in DOMAIN file.lines : file.lines[i].kind = "readerr"

\* the lines json.loads has parsed when the reading ends: the JSON lines
\* before the first line that cannot be read
ParsedLines(file) ==
    {i \in DOMAIN file.lines :
        /\ file.lines[i].kind = "json"
        /\ \A j \in 1..i : file.lines[j].kind # "readerr"}

DigitVal(c) == IndexOf(DigitChars, c) - 1

DaysIn(y, m) ==
    IF m \in {4, 6, 9, 11} THEN 30
    ELSE IF m # 2 THEN 31
         ELSE IF (y % 4 = 0 /\ y % 100 # 0) \/ y % 400 = 0 THEN 29 ELSE 28

\* a str that is a YYYY-MM-DD calendar date
IsValidDate(v) ==
    /\ v.type = "str"
    /\ Len(v.s) = 10
    /\ v.s[5] = "-" /\ v.s[8] = "-"
    /\ \A i \in {1, 2, 3, 4, 6, 7, 9, 10} : v.s[i] \in Range(DigitChars)
    /\ LET y == 1000 * DigitVal(v.s[1]) + 100 * DigitVal(v.s[2])
                    + 10 * DigitVal(v.s[3]) + DigitVal(v.s[4])
           m == 10 * DigitVal(v.s[6]) + DigitVal(v.s[7])
           d == 10 * DigitVal(v.s[9]) + DigitVal(v.s[10])
       IN  m \in 1..12 /\ d \in 1..DaysIn(y, m)

(***************************************************************************)
(* clean_text of the sequential processor: lower-case, NFKD, drop the      *)
(* combining marks, remove what is neither a word character nor            *)
(* whitespace, collapse the whitespace and strip.                          *)
(***************************************************************************)
\* the combining marks of the accented letters, acute accent and tilde,
\* each one character, written by its code point
CombiningAcute == "U+0301"

CombiningTilde == "U+0303"

CombiningMark(c) == IF c \in {"ñ", "Ñ"} THEN CombiningTilde ELSE CombiningAcute

\* unicodedata.normalize("NFKD", c): a letter with a diacritic gives its base
\* letter and the mark, the rupee sign gives "Rs"
NFKDChar(c) ==
    IF c \in Range(LowerAccented)
    THEN <<AccentBase[IndexOf(LowerAccented, c)], CombiningMark(c)>>
    ELSE IF c \in Range(UpperAccented)
    THEN <<UpperAscii[IndexOf(LowerAscii,
                              AccentBase[IndexOf(UpperAccented, c)])],
           CombiningMark(c)>>
    ELSE IF c = "₨" THEN <<"R", "s">> ELSE <<c>>

NFKD(text) == FlattenSeq([i \in DOMAIN text |-> NFKDChar(text[i])])

combining(c) == c \in {CombiningAcute, CombiningTilde}

\* \w: a letter, a digit or the underscore
IsWordChar(c) ==
    \/ isalnum(c)
    \/ c \in Range(LowerAccented) \cup Range(UpperAccented)
    \/ c = "_"

RECURSIVE JoinWords(_)
JoinWords(words) ==
    IF words = <<>> THEN <<>>
    ELSE IF Len(words) = 1 THEN words[1]
    ELSE words[1] \o <<" ">> \o JoinWords(Tail(words))

\* re.sub(r"\s+", " ", text).strip()
CollapseSpaces(text) == JoinWords(split(text))

main_clean_text(text) ==
    LET t1 == NFKD(lower(text))
        t2 == SelectSeq(t1, LAMBDA c : ~combining(c))
        t3 == SelectSeq(t2, LAMBDA c : IsWordChar(c) \/ isspace(c))
    IN  CollapseSpaces(t3)

(***************************************************************************)
(* One text given to clean_text, and the result given to it again.         *)
(***************************************************************************)
ParallelChars == {"a", "B", "É", "ñ", "5", ",", "_", " ", "\t", "€"}

SequentialChars == {"a", "B", "É", "ñ", "5", ",", "_", " ", "\t", "₨"}

ApplyClean(fn, text) ==
    IF fn = "main_parallel" THEN clean_text(text) ELSE main_clean_text(text)

InitClean ==
    /\ \E fn \in {"main_parallel", "main"} :
          \E text \in SeqsUpTo(IF fn = "main_parallel" THEN ParallelChars
                                ELSE SequentialChars, MaxChars) :
              ct = [CleanStart EXCEPT !.fn = fn, !.text = text]
    /\ CHUNK_SIZE = 1
    /\ bound_keywords = KEYWORDS
    /\ PoolIdle
    /\ ReaderIdle
    /\ sc = ScoreStart
    /\ AnalyzerIdle
    /\ PipeIdle
    /\ mc = CollectorStart
    /\ scr = ScraperStart

\* clean_text(text)
Clean ==
    /\ ct.calls = 0
    /\ ct' = [ct EXCEPT !.cleaned = ApplyClean(ct.fn, ct.text), !.calls = 1]
    /\ UNCHANGED <<confVars, poolVars, readerVars, sc, analyzerVars,
                   pipeVars, mc, scr>>

\* clean_text of the result
CleanAgain ==
    /\ ct.calls = 1
    /\ ct' = [ct EXCEPT !.again = ApplyClean(ct.fn, ct.cleaned), !.calls = 2]
    /\ UNCHANGED <<confVars, poolVars, readerVars, sc, analyzerVars,
                   pipeVars, mc, scr>>

NextClean == Clean \/ CleanAgain

SpecClean == InitClean /\ [][NextClean]_vars

(***************************************************************************)
(* MetricsCollector: one thread calls start_monitoring and stop_monitoring *)
(* one after the other, and every start_monitoring starts a thread that    *)
(* runs _monitor_loop.                                                     *)
(***************************************************************************)
InitCollector ==
    /\ mc = CollectorStart
    /\ CHUNK_SIZE = 1
    /\ bound_keywords = KEYWORDS
    /\ PoolIdle
    /\ ReaderIdle
    /\ sc = ScoreStart
    /\ AnalyzerIdle
    /\ PipeIdle
    /\ scr = ScraperStart
    /\ ct = CleanStart

\* start_monitoring: the flag is set and a new thread is started, whatever
\* monitor_thread held
start_monitoring ==
    /\ mc.caller = "idle"
    /\ mc.starts < MaxStarts
    /\ mc' = [mc EXCEPT !.monitoring = TRUE,
                        !.threads = Append(@, "check"),
                        !.monitor_thread = Len(mc.threads) + 1,
                        !.stopped = FALSE,
                        !.starts = @ + 1]
    /\ UNCHANGED <<confVars, poolVars, readerVars, sc, analyzerVars,
                   pipeVars, scr, ct>>

\* stop_monitoring up to the join: the flag is cleared; with no thread the
\* call returns at once
stop_monitoring ==
    /\ mc.caller = "idle"
    /\ mc' = IF mc.monitor_thread = 0
             THEN [mc EXCEPT !.monitoring = FALSE, !.stopped = TRUE,
                             !.len_at_stop = Len(mc.system_metrics)]
             ELSE [mc EXCEPT !.monitoring = FALSE, !.caller = "join"]
    /\ UNCHANGED <<confVars, poolVars, readerVars, sc, analyzerVars,
                   pipeVars, scr, ct>>

\* monitor_thread.join() returns once that thread has ended, and
\* stop_monitoring returns
JoinReturns ==
    /\ mc.caller = "join"
    /\ mc.threads[mc.monitor_thread] = "done"
    /\ mc' = [mc EXCEPT !.caller = "idle", !.stopped = TRUE,
                        !.len_at_stop = Len(mc.system_metrics)]
    /\ UNCHANGED <<confVars, poolVars, readerVars, sc, analyzerVars,
                   pipeVars, scr, ct>>

\* _monitor_loop: `while self.monitoring`
LoopTest(t) ==
    /\ t \in DOMAIN mc.threads
    /\ mc.threads[t] = "check"
    /\ mc' = [mc EXCEPT !.threads[t] =
                            IF mc.monitoring THEN "collect" ELSE "done"]
    /\ UNCHANGED <<confVars, poolVars, readerVars, sc, analyzerVars,
                   pipeVars, scr, ct>>

\* _collect_system_metrics: the entry is appended, unless psutil raised,
\* which is logged
_collect_system_metrics(t, ok) ==
    /\ t \in DOMAIN mc.threads
    /\ mc.threads[t] = "collect"
    /\ Len(mc.system_metrics) < MaxMetrics
    /\ mc' = [mc EXCEPT !.threads[t] = "sleep",
                        !.system_metrics = IF ok THEN Append(@, t) ELSE @]
    /\ UNCHANGED <<confVars, poolVars, readerVars, sc, analyzerVars,
                   pipeVars, scr, ct>>

\* time.sleep(interval) returns
SleepReturns(t) ==
    /\ t \in DOMAIN mc.threads
    /\ mc.threads[t] = "sleep"
    /\ mc' = [mc EXCEPT !.threads[t] = "check"]
    /\ UNCHANGED <<confVars, poolVars, readerVars, sc, analyzerVars,
                   pipeVars, scr, ct>>

NextCollector ==
    \/ start_monitoring
    \/ stop_monitoring
    \/ JoinReturns
    \/ \E t \in 1..MaxStarts : LoopTest(t)
    \/ \E t \in 1..MaxStarts, ok \in BOOLEAN : _collect_system_metrics(t, ok)
    \/ \E t \in 1..MaxStarts : SleepReturns(t)

SpecCollector == InitCollector /\ [][NextCollector]_vars

(***************************************************************************)
(* NoticiasRSSScraper.descargar_noticias: the feeds of RSS_FEEDS one after *)
(* the other, and the entries of a feed one after the other.  An entry has *)
(* a date in range and its fields ("ok"), no date, a date before the       *)
(* limit ("old"), or no title, which makes entry.title raise.              *)
(***************************************************************************)
RSS_FEEDS == <<"portafolio.co", "larepublica.co", "banrep.gov.co">>

EntryKinds == {"ok", "no_date", "old", "no_title"}

\* str(n) of a positive int: its decimal digits
RECURSIVE str(_)
str(n) ==
    IF n < 10 THEN <<DigitChars[n + 1]>>
    ELSE str(n \div 10) \o <<DigitChars[(n % 10) + 1]>>

InitScraper ==
    /\ scr = ScraperStart
    /\ CHUNK_SIZE = 1
    /\ bound_keywords = KEYWORDS
    /\ PoolIdle
    /\ ReaderIdle
    /\ sc = ScoreStart
    /\ AnalyzerIdle
    /\ PipeIdle
    /\ mc = CollectorStart
    /\ ct = CleanStart

\* feedparser.parse(url), and `if feed.bozo: return`
ParseFeed(bozo) ==
    /\ scr.pc = "next"
    /\ scr.feed < Len(RSS_FEEDS)
    /\ scr' = [scr EXCEPT !.feed = @ + 1, !.pos = 0,
                          !.pc = IF bozo THEN "next" ELSE "entries"]
    /\ UNCHANGED <<confVars, poolVars, readerVars, sc, analyzerVars,
                   pipeVars, mc, ct>>

\* a faulty variant of SkipEntry: the entry that is skipped takes an id
SkipEntryTakesId(st) == [st EXCEPT !.pos = @ + 1, !.doc_id = @ + 1]

\* `continue`
SkipEntry(st) == [st EXCEPT !.pos = @ + 1]

\* the entry becomes a noticia with the id str(self.doc_id)
AppendNoticia(st) ==
    [st EXCEPT !.pos = @ + 1,
               !.noticias = Append(@, [id |-> str(st.doc_id),
                                       source |-> RSS_FEEDS[st.feed],
                                       entry |-> st.pos + 1]),
               !.doc_id = @ + 1]

\* one iteration of `for entry in feed.entries`
Entry(kind) ==
    /\ scr.pc = "entries"
    /\ scr.pos < MaxEntries
    /\ scr' = IF kind \in {"no_date", "old"} THEN SkipEntry(scr)
              ELSE IF kind = "no_title"
              THEN [scr EXCEPT !.pos = @ + 1, !.pc = "raised",
                               !.raised = "AttributeError"]
              ELSE AppendNoticia(scr)
    /\ UNCHANGED <<confVars, poolVars, readerVars, sc, analyzerVars,
                   pipeVars, mc, ct>>

\* the feed has no more entry
FeedEnd ==
    /\ scr.pc = "entries"
    /\ scr' = [scr EXCEPT !.pc = "next"]
    /\ UNCHANGED <<confVars, poolVars, readerVars, sc, analyzerVars,
                   pipeVars, mc, ct>>

NextScraper ==
    \/ \E bozo \in BOOLEAN : ParseFeed(bozo)
    \/ \E kind \in EntryKinds : Entry(kind)
    \/ FeedEnd

SpecScraper == InitScraper /\ [][NextScraper]_vars

(***************************************************************************)
(* The pipeline: the processor's main writes results.csv, the analyzer's   *)
(* main loads it with COLCAP.csv and runs analyze.  A CSV file is there or *)
(* not, can be read or not, and has its header and its rows; the cells of  *)
(* results.csv are the values of the records.                              *)
(***************************************************************************)
CsvFile(readable, columns, rows) ==
    [exists |-> TRUE, readable |-> readable, columns |-> columns,
     rows |-> rows]

\* a day number for a calendar date, ascending with the date: 2024-01-01 is 1
DayNumber(v) ==
    LET y == 1000 * DigitVal(v.s[1]) + 100 * DigitVal(v.s[2])
                 + 10 * DigitVal(v.s[3]) + DigitVal(v.s[4])
        m == 10 * DigitVal(v.s[6]) + DigitVal(v.s[7])
        d == 10 * DigitVal(v.s[9]) + DigitVal(v.s[10])
    IN  (y - 2024) * 372 + (m - 1) * 31 + d

\* pd.to_datetime raises on a cell that is no date
CanConvert(cell) == cell.type = "None" \/ IsValidDate(cell)

\* pd.to_datetime of one cell: an empty cell gives NaT
to_datetime(cell) == IF cell.type = "None" THEN NaT ELSE DayNumber(cell)

\* the number a cell of digits is read as; an empty cell is NaN
RECURSIVE DigitsVal(_)
DigitsVal(ds) ==
    IF ds = <<>> THEN 0
    ELSE 10 * DigitsVal(SubSeq(ds, 1, Len(ds) - 1)) + DigitVal(ds[Len(ds)])

read_number(cell) == IF cell.type = "None" THEN NaN ELSE DigitsVal(cell.s)

\* DataFrame(results): the cells of one record that the analyzer reads
CsvRow(rec) ==
    [date |-> rec.date, doc_id |-> rec.doc_id,
     keyword_hits |-> rec.keyword_hits]

\* sort_values('date'): the dates ascending, the records with no date last;
\* the order of records with the same date is not fixed by the sort
DateKey(rec) == IF rec.date.type = "None" THEN <<1, <<>>>> ELSE <<0, rec.date.s>>

RECURSIVE StrLess(_, _)
StrLess(a, b) ==
    IF b = <<>> THEN FALSE
    ELSE IF a = <<>> THEN TRUE
    ELSE IF Head(a) = Head(b) THEN StrLess(Tail(a), Tail(b))
    ELSE IndexOf(DigitChars \o <<"-">>, Head(a))
             < IndexOf(DigitChars \o <<"-">>, Head(b))

KeyLess(k1, k2) == k1[1] < k2[1] \/ (k1[1] = k2[1] /\ StrLess(k1[2], k2[2]))

SortedByDate(recs) ==
    \A i, j \in DOMAIN recs :
        i < j => ~KeyLess(DateKey(recs[j]), DateKey(recs[i]))

\* load_processed_data: any failure gives pd.DataFrame()
load_processed_data(file) ==
    IF ~file.exists THEN EmptyFrame
    ELSE IF ~file.readable THEN EmptyFrame
    ELSE IF "date" \notin file.columns THEN EmptyFrame
    ELSE IF \E i \in DOMAIN file.rows : ~CanConvert(file.rows[i].date)
    THEN EmptyFrame
    ELSE Frame(file.columns,
               [i \in DOMAIN file.rows |->
                   [date |-> to_datetime(file.rows[i].date),
                    doc_id |-> read_number(file.rows[i].doc_id),
                    keyword_hits |-> file.rows[i].keyword_hits]])

\* load_colcap_data: any failure, and a file with no colcap_close column,
\* gives pd.DataFrame()
load_colcap_data(file) ==
    IF ~file.exists THEN EmptyFrame
    ELSE IF ~file.readable THEN EmptyFrame
    ELSE IF "colcap_close" \notin file.columns THEN EmptyFrame
    ELSE IF "date" \notin file.columns THEN EmptyFrame
    ELSE IF \E i \in DOMAIN file.rows : ~CanConvert(file.rows[i].date)
    THEN EmptyFrame
    ELSE Frame(file.columns,
               [i \in DOMAIN file.rows |->
                   [date |-> to_datetime(file.rows[i].date),
                    colcap_close |-> file.rows[i].colcap_close]])

\* the input directories of the runs: no .jsonl file, files with no
\* line, a file that cannot be read to its end, files with documents
PipelineInputs ==
    {<<>>,
     <<ExistingFile(<<>>)>>,
     <<ExistingFile(<<>>), ExistingFile(<<>>)>>,
     <<ExistingFile(<<JsonLine(DocA), ReadErrLine>>)>>,
     <<ExistingFile(<<JsonLine(DocB), JsonLine(DocA)>>)>>,
     <<ExistingFile(<<JsonLine(DocB)>>), ExistingFile(<<JsonLine(DocA)>>)>>,
     <<ExistingFile(<<JsonLine(DocNoDate)>>)>>,
     <<ExistingFile(<<JsonLine(DocA), JsonLine(DocNoDate),
                      JsonLine(DocNoText)>>)>>,
     <<ExistingFile(<<JsonLine(DocA), JsonLine(DocBadDate)>>)>>,
     <<ExistingFile(<<JsonLine(DocA), ReadErrLine>>),
       ExistingFile(<<JsonLine(DocA), BadLine, JsonLine(DocB)>>)>>}

ColcapCsvRows ==
    [date : {DocA.fields.date, DocB.fields.date},
     colcap_close : {NaN, 100, 110}]

\* COLCAP.csv: not there, not readable, with a column missing, with a cell
\* that is no date, or with its rows
ColcapFiles ==
    {NoFile,
     CsvFile(FALSE, {}, <<>>),
     CsvFile(TRUE, {"date"}, <<>>),
     CsvFile(TRUE, {"colcap_close"}, <<>>),
     CsvFile(TRUE, ColcapColumns,
             <<[date |-> DocBadDate.fields.date, colcap_close |-> 100]>>)}
    \cup {CsvFile(TRUE, ColcapColumns, r) :
              r \in SeqsUpTo(ColcapCsvRows, MaxColcap)}

InitPipeline ==
    /\ files \in PipelineInputs
    /\ disk \in [results : {NoFile}, colcap : ColcapFiles, written : {{}},
                  fault : BOOLEAN]
    /\ run = RunStart
    /\ num_workers = 1
    /\ phase = "start"
    /\ taskq = <<>>
    /\ procs = [w \in 1..MaxWorkers |-> 0]
    /\ results_nested = <<>>
    /\ all_results = <<>>
    /\ all_src = <<>>
    /\ assigned = <<>>
    /\ CHUNK_SIZE = 1
    /\ bound_keywords = KEYWORDS
    /\ ReaderIdle
    /\ sc = ScoreStart
    /\ AnalyzerIdle
    /\ mc = CollectorStart
    /\ scr = ScraperStart
    /\ ct = CleanStart

\* the processor's main up to the results: no .jsonl file, or the list that
\* process_files_parallel returns
ProcessorMain ==
    /\ run.processor = "none"
    /\ IF files = <<>>
       THEN /\ run' = [run EXCEPT !.processor = "no_files"]
            /\ all_results' = all_results
       ELSE /\ run' = [run EXCEPT !.processor = "processed"]
            /\ all_results' =
                   FlattenSeq([i \in DOMAIN files |->
                       process_file_chunk(files[i], bound_keywords).ret])
    /\ UNCHANGED <<files, num_workers, phase, taskq, procs, results_nested,
                   all_src, assigned, confVars, readerVars, sc, analyzerVars,
                   disk, mc, scr, ct>>

\* the processor's main: no result is an error and nothing is written
ProcessorNoResults ==
    /\ run.processor = "processed"
    /\ all_results = <<>>
    /\ run' = [run EXCEPT !.processor = "no_results"]
    /\ UNCHANGED <<poolVars, confVars, readerVars, sc, analyzerVars, disk,
                   mc, scr, ct>>

\* save_results of the processor: results.csv with the records sorted by date
ProcessorSave ==
    /\ run.processor = "processed"
    /\ all_results # <<>>
    /\ \E p \in Permutations(DOMAIN all_results) :
           /\ SortedByDate([i \in DOMAIN all_results |-> all_results[p[i]]])
           /\ disk' = [disk EXCEPT !.results =
                           CsvFile(~disk.fault, ProcessedColumns,
                                   [i \in DOMAIN all_results |->
                                       CsvRow(all_results[p[i]])])]
    /\ run' = [run EXCEPT !.processor = "completed"]
    /\ UNCHANGED <<poolVars, confVars, readerVars, sc, analyzerVars, mc, scr, ct>>

Stage(name) == [run EXCEPT !.trail = Append(@, name)]

\* analyze: load_processed_data, and return None when there is no data
AnalyzeLoad ==
    /\ run.processor \in {"no_files", "no_results", "completed"}
    /\ apc = "idle"
    /\ df_processed' = load_processed_data(disk.results)
    /\ IF empty(df_processed')
       THEN /\ apc' = "returned"
            /\ run' = [Stage("load") EXCEPT !.analyze = "None"]
       ELSE /\ apc' = "loaded_processed"
            /\ run' = Stage("load")
    /\ UNCHANGED <<df_colcap, daily_agg, merged_df, metrics, disk, confVars,
                   poolVars, readerVars, sc, mc, scr, ct>>

AnalyzeLoadColcap ==
    /\ apc = "loaded_processed"
    /\ df_colcap' = load_colcap_data(disk.colcap)
    /\ apc' = "loaded"
    /\ run' = Stage("load_colcap")
    /\ UNCHANGED <<df_processed, daily_agg, merged_df, metrics, disk,
                   confVars, poolVars, readerVars, sc, mc, scr, ct>>

\* analyze: aggregate_by_date, and return None when the aggregate is empty
AnalyzeAggregate ==
    /\ apc = "loaded"
    /\ daily_agg' = aggregate_by_date(df_processed)
    /\ IF empty(daily_agg')
       THEN /\ apc' = "returned"
            /\ run' = [Stage("aggregate") EXCEPT !.analyze = "None"]
       ELSE /\ apc' = "aggregated"
            /\ run' = Stage("aggregate")
    /\ UNCHANGED <<df_processed, df_colcap, merged_df, metrics, disk,
                   confVars, poolVars, readerVars, sc, mc, scr, ct>>

AnalyzeMerge ==
    /\ apc = "aggregated"
    /\ merged_df' = merge_with_colcap(daily_agg, df_colcap)
    /\ apc' = "merged"
    /\ run' = Stage("merge")
    /\ UNCHANGED <<df_processed, df_colcap, daily_agg, metrics, disk,
                   confVars, poolVars, readerVars, sc, mc, scr, ct>>

AnalyzeMetrics ==
    /\ apc = "merged"
    /\ metrics' = calculate_metrics(merged_df)
    /\ apc' = "measured"
    /\ run' = Stage("metrics")
    /\ UNCHANGED <<df_processed, df_colcap, daily_agg, merged_df, disk,
                   confVars, poolVars, readerVars, sc, mc, scr, ct>>

\* generate_plots: the figure is saved unless drawing it fails, and a
\* failure is logged and goes no further
AnalyzePlots(drawn) ==
    /\ apc = "measured"
    /\ disk' = [disk EXCEPT !.written =
                    IF drawn /\ ~empty(merged_df)
                    THEN @ \cup {"plots/analysis_complete.png"} ELSE @]
    /\ apc' = "plotted"
    /\ run' = Stage("plots")
    /\ UNCHANGED <<df_processed, df_colcap, daily_agg, merged_df, metrics,
                   confVars, poolVars, readerVars, sc, mc, scr, ct>>

\* a faulty variant of save_results_files: nothing is written when the table
\* has no colcap_close column
save_results_files_strict(df, m) ==
    IF empty(df) \/ "colcap_close" \notin df.columns THEN {}
    ELSE {"merged_daily.csv"}
             \cup (IF DOMAIN m # {} THEN {"metrics.txt"} ELSE {})

\* save_results: the files it writes
save_results_files(df, m) ==
    IF empty(df) THEN {}
    ELSE {"merged_daily.csv"}
             \cup (IF DOMAIN m # {} THEN {"metrics.txt"} ELSE {})

\* analyze: save_results, and return metrics
AnalyzeSave ==
    /\ apc = "plotted"
    /\ disk' = [disk EXCEPT !.written =
                    @ \cup save_results_files(merged_df, metrics)]
    /\ apc' = "returned"
    /\ run' = [Stage("save") EXCEPT !.analyze = "metrics"]
    /\ UNCHANGED <<df_processed, df_colcap, daily_agg, merged_df, metrics,
                   confVars, poolVars, readerVars, sc, mc, scr, ct>>

\* a faulty variant of MainReturn1: main goes on to the API though analyze
\* returned None
MainIgnoresNone ==
    /\ apc = "returned"
    /\ run.analyze = "None"
    /\ run.main = "none"
    /\ ~run.api
    /\ run' = [run EXCEPT !.api = TRUE]
    /\ UNCHANGED <<disk, analyzerVars, confVars, poolVars, readerVars, sc,
                   mc, scr, ct>>

\* main: analyze returned None
MainReturn1 ==
    /\ apc = "returned"
    /\ run.analyze = "None"
    /\ run.main = "none"
    /\ run' = [run EXCEPT !.main = "1"]
    /\ UNCHANGED <<disk, analyzerVars, confVars, poolVars, readerVars, sc,
                   mc, scr, ct>>

\* main: the API module is imported and uvicorn.run is entered; when the
\* import fails the exception is caught and main returns 1
MainStartApi(imported) ==
    /\ apc = "returned"
    /\ run.analyze = "metrics"
    /\ run.main = "none"
    /\ ~run.api
    /\ run' = IF imported THEN [run EXCEPT !.api = TRUE]
              ELSE [run EXCEPT !.main = "1"]
    /\ UNCHANGED <<disk, analyzerVars, confVars, poolVars, readerVars, sc,
                   mc, scr, ct>>

\* main: uvicorn.run returns
MainReturn0 ==
    /\ run.api
    /\ run.main = "none"
    /\ run' = [run EXCEPT !.main = "0"]
    /\ UNCHANGED <<disk, analyzerVars, confVars, poolVars, readerVars, sc,
                   mc, scr, ct>>

NextPipeline ==
    \/ ProcessorMain
    \/ ProcessorNoResults
    \/ ProcessorSave
    \/ AnalyzeLoad
    \/ AnalyzeLoadColcap
    \/ AnalyzeAggregate
    \/ AnalyzeMerge
    \/ AnalyzeMetrics
    \/ \E drawn \in BOOLEAN : AnalyzePlots(drawn)
    \/ AnalyzeSave
    \/ MainReturn1
    \/ \E imported \in BOOLEAN : MainStartApi(imported)
    \/ MainReturn0

SpecPipeline == InitPipeline /\ [][NextPipeline]_vars

\* main is sequential code: once analyze has returned None, `return 1` is
\* the statement that runs next
SpecPipelineLive == SpecPipeline /\ WF_vars(MainReturn1)

(***************************************************************************)
(* The scenario of three documents in one file, processed with the         *)
(* keywords "inflacion" and "dolar" and aggregated by the analyzer.  The   *)
(* ids are JSON numbers or strings, the chunk size and COLCAP.csv vary.    *)
(***************************************************************************)
ScenarioKeywords == <<<<"i", "n", "f", "l", "a", "c", "i", "o", "n">>, <<"d", "o", "l", "a", "r">>>>

ScenarioDate1 == JStr(<<"2", "0", "2", "4", "-", "0", "1", "-", "0", "1">>)

ScenarioDate2 == JStr(<<"2", "0", "2", "4", "-", "0", "1", "-", "0", "2">>)

ScenarioDocs(Id(_)) ==
    <<JObject(Id(<<"1">>), ScenarioDate1, JStr(<<"L", "a", " ", "i", "n", "f", "l", "a", "c", "i", "o", "n", " ", "s", "u", "b", "e">>)),
      JObject(Id(<<"2">>), ScenarioDate1, JStr(<<"E", "l", " ", "d", "o", "l", "a", "r", " ", "c", "a", "e">>)),
      JObject(Id(<<"3">>), ScenarioDate2, JStr(<<"N", "a", "d", "a", " ", "r", "e", "l", "e", "v", "a", "n", "t", "e">>))>>

ScenarioFile(Id(_)) ==
    ExistingFile([i \in 1..3 |-> JsonLine(ScenarioDocs(Id)[i])])

InitScenario ==
    /\ files \in {<<ScenarioFile(JStr)>>, <<ScenarioFile(JInt)>>}
    /\ CHUNK_SIZE \in 1..MaxChunkSize
    /\ bound_keywords = ScenarioKeywords
    /\ disk \in [results : {NoFile}, colcap : ColcapFiles, written : {{}},
                  fault : {FALSE}]
    /\ run = RunStart
    /\ num_workers = 1
    /\ phase = "start"
    /\ taskq = <<>>
    /\ procs = [w \in 1..MaxWorkers |-> 0]
    /\ results_nested = <<>>
    /\ all_results = <<>>
    /\ all_src = <<>>
    /\ assigned = <<>>
    /\ ReaderIdle
    /\ sc = ScoreStart
    /\ AnalyzerIdle
    /\ mc = CollectorStart
    /\ scr = ScraperStart
    /\ ct = CleanStart

NextScenario ==
    \/ ProcessorMain
    \/ ProcessorSave
    \/ AnalyzeLoad
    \/ AnalyzeLoadColcap
    \/ AnalyzeAggregate

SpecScenario == InitScenario /\ [][NextScenario]_vars

(***************************************************************************)
(* C1.  Per-document fault isolation: when every line of the file parses   *)
(* as JSON, a failure while processing one document (a line whose value is *)
(* no object, a 'text' that is no string) skips that document only: the    *)
(* call is not aborted and returns the records of all the other documents. *)
(* A line that holds a JSON number refutes it: the whole file is dropped.   *)
(***************************************************************************)
C1_FaultIsolation ==
    (rst.pc = "done" /\ AllLinesParse(rfile)) =>
        /\ rst.caught = "none"
        /\ rst.ret = IsolatedRecords(rfile.lines)

(***************************************************************************)
(* C2.  A line that json.loads rejects, wherever it stands and whatever    *)
(* the chunk size, gives no record and does not stop the reading: in a     *)
(* file of such lines and of JSON objects the call ends by its normal      *)
(* return, no exception is caught at the file level or leaves the call,    *)
(* and every object line before and after gives its record.                *)
(***************************************************************************)
C2_BadLineSkipped ==
    (rst.pc = "done" /\ OnlyBadOrObjectLines(rfile)) =>
        /\ rst.caught = "none"
        /\ rst.raised = "none"
        /\ rst.ret = IsolatedRecords(rfile.lines)
        /\ \A k \in DOMAIN rst.ret_src : rfile.lines[rst.ret_src[k]].kind # "bad"

C2_Witness ==
    /\ rst.pc = "done"
    /\ Len(rfile.lines) = 3
    /\ IsObjectLine(rfile.lines[1])
    /\ rfile.lines[2].kind = "bad"
    /\ IsObjectLine(rfile.lines[3])
    /\ rst.ret_src = <<1, 3>>

(***************************************************************************)
(* C3.  A file that is missing or cannot be read gives the empty list in   *)
(* its slot: no task raises, map does not raise, and the list returned by  *)
(* process_files_parallel holds the records of every other file.           *)
(***************************************************************************)
C3_UnreadableFileIsEmpty ==
    /\ phase # "raised"
    /\ \A i \in DOMAIN files :
           results_nested[i].ready =>
               /\ results_nested[i].raised = "none"
               /\ Unreadable(files[i]) => results_nested[i].value = <<>>
    /\ phase = "done" =>
           all_results =
               FlattenSeq([i \in DOMAIN files |->
                              IF Unreadable(files[i]) THEN <<>>
                              ELSE IsolatedRecords(files[i].lines)])

C3_Witness ==
    /\ phase = "done"
    /\ num_workers > 1
    /\ \E i, j, k \in DOMAIN files :
           /\ ~files[i].exists
           /\ files[j].exists /\ Unreadable(files[j])
           /\ ~Unreadable(files[k])
    /\ all_results # <<>>

(***************************************************************************)
(* C4.  The multiset of records process_files_parallel returns is that of  *)
(* processing the files one after the other, whatever num_workers is and   *)
(* however the workers interleave: one worker and K workers give the same. *)
(***************************************************************************)
SerialResults ==
    FlattenSeq([i \in DOMAIN files |-> process_file_chunk(files[i], KEYWORDS).ret])

C4_SameMultiset ==
    phase = "done" => BagOfSeq(all_results) = BagOfSeq(SerialResults)

C4_Witness ==
    /\ phase = "done"
    /\ num_workers > 1
    /\ \E i, j \in DOMAIN files :
           /\ i < j
           /\ assigned[i] # assigned[j]
           /\ results_nested[i].value # <<>>
           /\ results_nested[j].value # <<>>

(***************************************************************************)
(* C5.  Every file of the list is assigned to exactly one worker task: a   *)
(* file is taken at most once, no two workers run the same file, a file is *)
(* waiting in the queue exactly as long as no worker has taken it, and     *)
(* when process_files_parallel returns every file was taken once and has   *)
(* its result.                                                             *)
(***************************************************************************)
C5_OneTaskPerFile ==
    /\ \A i \in DOMAIN files : Len(assigned[i]) <= 1
    /\ \A v, w \in DOMAIN procs :
           (v # w /\ procs[v] # 0) => procs[v] # procs[w]
    /\ phase = "map" =>
           \A i \in DOMAIN files :
               Occurrences(taskq, i) = 1 - Len(assigned[i])
    /\ phase = "done" =>
           \A i \in DOMAIN files :
               Len(assigned[i]) = 1 /\ results_nested[i].ready

C5_Witness ==
    /\ phase = "done"
    /\ Len(files) >= 3
    /\ \E i, j \in DOMAIN files : assigned[i] # assigned[j]

(***************************************************************************)
(* C6.  At every moment at most num_workers file tasks are executing, also *)
(* when there are more files than workers: the other files wait.           *)
(***************************************************************************)
C6_AtMostNumWorkers == Cardinality(Busy) <= num_workers

C6_Witness ==
    /\ Len(files) > num_workers
    /\ Cardinality(Busy) = num_workers
    /\ taskq # <<>>

(***************************************************************************)
(* C7.  In the returned list the records of one file stand in the order of *)
(* that file's lines, whatever the number of workers and the order in      *)
(* which they finish; each record is the one of the line it comes from.    *)
(***************************************************************************)
C7_FileOrderKept ==
    phase = "done" =>
        /\ Len(all_src) = Len(all_results)
        /\ \A p, q \in DOMAIN all_src :
               (p < q /\ all_src[p][1] = all_src[q][1]) =>
                   all_src[p][2] < all_src[q][2]
        /\ \A p \in DOMAIN all_src :
               all_results[p] =
                   process_document(files[all_src[p][1]].lines[all_src[p][2]].val,
                                    KEYWORDS).rec

C7_Witness ==
    /\ phase = "done"
    /\ num_workers > 1
    /\ \E p, q \in DOMAIN all_src :
           /\ p < q
           /\ all_src[p][1] = all_src[q][1]
           /\ all_src[p][1] > 1
           /\ all_results[p] # all_results[q]

(***************************************************************************)
(* C8 as stated.  For every chunk size and every file (here: every file    *)
(* whose JSON lines are all objects), the call returns the records of the  *)
(* successfully parsed lines, each processed once in source order, and     *)
(* every parsed document was handed to process_document exactly once.      *)
(* A file that stops being readable after some parsed lines refutes it.    *)
(***************************************************************************)
C8_AsStated ==
    (/\ rst.pc = "done"
     /\ \A i \in DOMAIN rfile.lines :
            rfile.lines[i].kind = "json" => IsObjectLine(rfile.lines[i])) =>
        /\ rst.ret =
               IsolatedRecords([i \in DOMAIN rfile.lines |->
                                   IF i \in ParsedLines(rfile)
                                   THEN rfile.lines[i] ELSE BadLine])
        /\ \A i \in ParsedLines(rfile) : Occurrences(rst.handed, i) = 1

(***************************************************************************)
(* C8, amended.  Chunk boundaries are invisible: for every chunk size the  *)
(* call returns the list it returns with chunk size 1; a parsed document   *)
(* is handed to process_document at most once; and when the call ends by   *)
(* its normal return, the list is the records of the parsed lines in       *)
(* source order and every parsed document, those of the final partial      *)
(* chunk too, was handed to process_document exactly once.                 *)
(***************************************************************************)
C8_ChunksInvisible ==
    /\ \A i \in DOMAIN rfile.lines : Occurrences(rst.handed, i) <= 1
    /\ rst.pc = "done" =>
           /\ rst.ret = RunReader(rfile, ReaderStart, KEYWORDS, 1).ret
           /\ rst.caught = "none" =>
                  /\ rst.ret = IsolatedRecords(rfile.lines)
                  /\ \A i \in ParsedLines(rfile) :
                         Occurrences(rst.handed, i) = 1

C8_Witness ==
    /\ rst.pc = "done"
    /\ rst.caught = "none"
    /\ CHUNK_SIZE = 2
    /\ rst.handed = <<1, 2, 3>>
    /\ Len(rst.ret) = 3

(***************************************************************************)
(* C9.  process_document gives at most one record per document and none    *)
(* for a malformed one: every record of the list comes from a document     *)
(* that has a 'text', has a 'date', and whose date is a valid YYYY-MM-DD   *)
(* calendar date.  A document with no 'date' refutes it: it gives a record.*)
(***************************************************************************)
C9_MalformedSkipped ==
    /\ \A i \in DOMAIN rfile.lines : Occurrences(rst.src, i) <= 1
    /\ \A k \in DOMAIN rst.results :
           LET doc == rfile.lines[rst.src[k]].val
           IN  /\ doc.fields.text.type # "absent"
               /\ doc.fields.date.type # "absent"
               /\ IsValidDate(rst.results[k].date)

(***************************************************************************)
(* C10.  The keyword score of a text is the sum over the keywords of the   *)
(* non-overlapping substring occurrences of the keyword in the normalized  *)
(* text, so that phrase keywords count.  count_keywords splits the text    *)
(* into words first, and a keyword inside a longer word refutes it.         *)
(***************************************************************************)
C10_SubstringScore ==
    sc.scored => sc.hits = hits(clean_text(sc.text), KEYWORDS)

\* C11: the score is never negative, and writing one more occurrence of a
\* keyword of the list after a text never makes count_keywords return less
\* than it returned for the text.
C11_Monotonic ==
    /\ sc.hits >= 0
    /\ sc.added => sc.hits >= sc.prev_hits

(***************************************************************************)
(* C12.  The keyword list is fixed and read-only during a run: no step of  *)
(* process_files_parallel or of a worker changes it, a worker writes only  *)
(* the result slot of its own task and a result that is there is never     *)
(* changed, so the result of every file is what process_file_chunk gives   *)
(* for that file's content and the keyword list, whichever worker ran it   *)
(* and whatever the other workers did.                                     *)
(***************************************************************************)
KeywordsFrame ==
    /\ bound_keywords' = bound_keywords
    /\ files' = files
    /\ \A i \in DOMAIN files :
           IF results_nested[i].ready
           THEN results_nested'[i] = results_nested[i]
           ELSE results_nested'[i].ready =>
                    results_nested'[i].value
                        = process_file_chunk(files[i], KEYWORDS).ret

C12_KeywordsReadOnly == [][KeywordsFrame]_vars

C12_Witness ==
    /\ phase = "map"
    /\ Busy # {}
    /\ \E i, j \in DOMAIN files :
           /\ i # j
           /\ files[i] = files[j]
           /\ results_nested[i].ready /\ results_nested[j].ready
           /\ assigned[i] # assigned[j]
           /\ results_nested[i].value # <<>>

(***************************************************************************)
(* C13.  For each date group aggregate_by_date returns docs_count equal to *)
(* the number of processed records with that date, the records with no     *)
(* doc_id included, and total_keyword_hits equal to the sum of their       *)
(* keyword_hits.  'count' on the doc_id column leaves out the records      *)
(* whose doc_id is missing, and one such record refutes it.                *)
(***************************************************************************)
Column(rows, c) == [i \in DOMAIN rows |-> rows[i][c]]

C13_GroupCounts ==
    apc = "aggregated" =>
        \A k \in DOMAIN daily_agg.rows :
            LET row == daily_agg.rows[k]
                g == Group(df_processed, row.date)
            IN  /\ row.docs_count = Len(g)
                /\ row.total_keyword_hits = SeqSum(Column(g, "keyword_hits"))

(***************************************************************************)
(* C14.  Conservation of documents: the docs_count of the rows returned by *)
(* aggregate_by_date add up to the number of input records less the ones   *)
(* dropped for having no date.  A dated record with no doc_id is lost from *)
(* the count, which refutes it.                                            *)
(***************************************************************************)
Dated(df) == SelectSeq(df.rows, LAMBDA r : r.date # NaT)

C14_Conservation ==
    apc = "aggregated" =>
        SeqSum(Column(daily_agg.rows, "docs_count")) = Len(Dated(df_processed))

(***************************************************************************)
(* C15.  The daily aggregate does not depend on the order of arrival: for  *)
(* every permutation of the processed records aggregate_by_date returns    *)
(* the same rows with the same values.                                     *)
(***************************************************************************)
Permuted(df, p) == Frame(df.columns, [i \in DOMAIN df.rows |-> df.rows[p[i]]])

C15_OrderIndependent ==
    apc = "aggregated" =>
        \A p \in Permutations(DOMAIN df_processed.rows) :
            aggregate_by_date(Permuted(df_processed, p)) = daily_agg

C15_Witness ==
    /\ apc = "aggregated"
    /\ Len(daily_agg.rows) = 2
    /\ \E i, j \in DOMAIN df_processed.rows :
           /\ i < j
           /\ df_processed.rows[i].date = df_processed.rows[j].date
           /\ df_processed.rows[i].keyword_hits
                  # df_processed.rows[j].keyword_hits
    /\ \E i, j \in DOMAIN df_processed.rows :
           /\ i < j
           /\ df_processed.rows[i].date > df_processed.rows[j].date
           /\ df_processed.rows[j].date # NaT

(***************************************************************************)
(* C16.  The output of aggregate_by_date has exactly one row for each      *)
(* distinct date present in the input, and its rows are in ascending date  *)
(* order.                                                                  *)
(***************************************************************************)
C16_OneRowPerDateAscending ==
    apc = "aggregated" =>
        LET out == Column(daily_agg.rows, "date")
        IN  /\ Range(out) = Range(Column(Dated(df_processed), "date"))
            /\ \A i, j \in DOMAIN out : i < j => out[i] < out[j]

C16_Witness ==
    /\ apc = "aggregated"
    /\ Len(df_processed.rows) = 3
    /\ df_processed.rows[1].date = 2
    /\ df_processed.rows[2].date = 1
    /\ df_processed.rows[3].date = 2
    /\ Len(daily_agg.rows) = 2

(***************************************************************************)
(* C17.  The left merge keeps every date of the aggregate exactly once,    *)
(* whatever the external series holds: the output of merge_with_colcap has *)
(* one row per date of the aggregate and no row for another date.  A       *)
(* series with two points for one date refutes it: the date gets two rows. *)
(***************************************************************************)
C17_EveryDateOnce ==
    (apc = "merged" /\ ~empty(daily_agg)) =>
        Column(merged_df.rows, "date") = Column(daily_agg.rows, "date")

\* the merged rows that have a close
WithClose ==
    IF "colcap_close" \in merged_df.columns
    THEN SelectSeq(merged_df.rows, LAMBDA r : r.colcap_close # NaN)
    ELSE <<>>

Constant(cells) == \A i, j \in DOMAIN cells : cells[i] = cells[j]

(***************************************************************************)
(* C18.  When at least 2 merged rows have a close and one of the two       *)
(* series is constant over them, calculate_metrics reports the correlation *)
(* as undefined: the report holds neither 0.0 nor nan for it.  The code    *)
(* stores 0.0 when the correlation is nan, which refutes it.               *)
(***************************************************************************)
C18_ZeroVarianceUndefined ==
    (/\ apc = "measured"
     /\ Len(WithClose) >= 2
     /\ \/ Constant(Column(WithClose, "total_keyword_hits"))
        \/ Constant(Column(WithClose, "colcap_close")))
    => \/ "correlation_keywords_colcap" \notin DOMAIN metrics
       \/ /\ metrics["correlation_keywords_colcap"] # Zero
          /\ ~isnan(metrics["correlation_keywords_colcap"])

(***************************************************************************)
(* C19.  When fewer than 2 merged rows have a close, calculate_metrics     *)
(* returns its report with no correlation value in it, neither 0.0 nor     *)
(* nan; the report still holds the totals of a non-empty table.            *)
(***************************************************************************)
C19_FewRowsNoCorrelation ==
    (apc = "measured" /\ Len(WithClose) < 2) =>
        /\ "correlation_keywords_colcap" \notin DOMAIN metrics
        /\ ~empty(merged_df) => "total_documents" \in DOMAIN metrics

C19_Witness ==
    /\ apc = "measured"
    /\ Len(WithClose) = 1
    /\ Len(merged_df.rows) >= 2
    /\ "total_documents" \in DOMAIN metrics

Done(name) == name \in Range(run.trail)

NoColcap == empty(load_colcap_data(disk.colcap))

C21_NoColcapStillAnalyzed ==
    NoColcap =>
        /\ Done("merge") => merged_df = daily_agg
        /\ Done("metrics") =>
               /\ "correlation_keywords_colcap" \notin DOMAIN metrics
               /\ metrics["total_documents"]
                      = SeqSum(Column(daily_agg.rows, "docs_count"))
               /\ metrics["total_keywords"]
                      = SeqSum(Column(daily_agg.rows, "total_keyword_hits"))
        /\ run.analyze = "None" =>
               \/ empty(df_processed)
               \/ Done("aggregate") /\ empty(daily_agg)
        /\ Done("save") =>
               /\ run.analyze = "metrics"
               /\ {"merged_daily.csv", "metrics.txt"} \subseteq disk.written

C21_Witness ==
    /\ NoColcap
    /\ disk.colcap.exists
    /\ Done("save")
    /\ Len(daily_agg.rows) = 2
    /\ run.api

(***************************************************************************)
(* C22.  An empty input set (no input file, or only files with no line)    *)
(* ends the pipeline in a 'no data' outcome of its own: not in the outcome *)
(* of a processing failure, which is the processor's "no results" error    *)
(* and the analyzer's return of 1.  A directory with one empty file        *)
(* refutes it, and so does a directory with no file.                       *)
(***************************************************************************)
EmptyInput ==
    \A i \in DOMAIN files : files[i].exists /\ files[i].lines = <<>>

C22_EmptyInputIsNoData ==
    EmptyInput =>
        /\ run.processor # "no_results"
        /\ run.main # "1"

(***************************************************************************)
(* C23.  clean_text is idempotent: clean_text of a cleaned text is that    *)
(* text.  A sign that is written out in capital letters refutes it for     *)
(* both processors: the capitals are lowered by the second call only.      *)
(***************************************************************************)
C23_Idempotent == ct.calls = 2 => ct.again = ct.cleaned

(***************************************************************************)
(* C24.  clean_text(t) holds only the characters a-z, 0-9 and the single   *)
(* space, with no two spaces in a row and no space at either end; the      *)
(* empty text gives the empty text.  A tab, a comma or a leading space     *)
(* refutes it for the parallel processor, an underscore for the            *)
(* sequential one.                                                         *)
(***************************************************************************)
C24_CleanCharset ==
    ct.calls >= 1 =>
        LET t == ct.cleaned
        IN  /\ \A i \in DOMAIN t :
                   t[i] \in Range(LowerAscii) \cup Range(DigitChars) \cup {" "}
            /\ \A i \in DOMAIN t : i > 1 => ~(t[i - 1] = " " /\ t[i] = " ")
            /\ t # <<>> => t[1] # " " /\ t[Len(t)] # " "
            /\ ct.text = <<>> => t = <<>>

(***************************************************************************)
(* C25.  The scenario end to end: the three documents give records with    *)
(* keyword_hits 1, 1, 0 in the order of the file, and the daily aggregate  *)
(* has the rows (2024-01-01, 2 documents, 2 hits) and (2024-01-02, 1       *)
(* document, 0 hits), in that order.                                       *)
(***************************************************************************)
C25_Scenario ==
    /\ run.processor # "none" =>
           [i \in DOMAIN all_results |-> all_results[i].keyword_hits]
               = <<1, 1, 0>>
    /\ Done("aggregate") =>
           daily_agg.rows =
               <<[date |-> DayNumber(ScenarioDate1), docs_count |-> 2,
                  total_keyword_hits |-> 2],
                 [date |-> DayNumber(ScenarioDate2), docs_count |-> 1,
                  total_keyword_hits |-> 0]>>

\* the aggregate is made, of a results.csv in which the sort put document 2
\* before document 1, the file having been read in chunks of two
C25_Witness ==
    /\ Done("aggregate")
    /\ CHUNK_SIZE = 2
    /\ df_processed.rows[1].doc_id = 2

(***************************************************************************)
(* C26.  Fan-in: when process_files_parallel has returned, the task of     *)
(* every file has completed (no task waits, no worker is busy, every file  *)
(* has its result), and the returned list is the per-file lists joined in  *)
(* the order of the file list, each once, whichever worker ran which file  *)
(* and in whatever order they finished.                                    *)
(***************************************************************************)
C26_FanIn ==
    phase = "done" =>
        /\ taskq = <<>>
        /\ Busy = {}
        /\ MapComplete
        /\ all_results = SerialResults

\* three files went through two workers, the first two files on different
\* workers with different records, and the call has returned
C26_Witness ==
    /\ phase = "done"
    /\ Len(files) = 3
    /\ num_workers = 2
    /\ assigned[1] # assigned[2]
    /\ results_nested[1].value # <<>>
    /\ results_nested[2].value # <<>>
    /\ results_nested[1].value # results_nested[2].value

(***************************************************************************)
(* C27.  A file's contribution is all or nothing.  The call ends in its    *)
(* outer handler exactly when the file cannot be opened, a line cannot be  *)
(* read, or a parsed document makes process_document raise (a JSON value   *)
(* that is no object); it then returns the empty list, whatever records it *)
(* had accumulated.  Otherwise it returns all its records: those of the    *)
(* parsed lines, the lines json.loads rejects being skipped.               *)
(***************************************************************************)
FileFails(file) ==
    \/ Unreadable(file)
    \/ \E i \in ParsedLines(file) : file.lines[i].val.type # "dict"

C27_AllOrNothing ==
    rst.pc = "done" =>
        /\ rst.caught # "none" <=> FileFails(rfile)
        /\ rst.caught # "none" => rst.ret = <<>>
        /\ rst.caught = "none" =>
               /\ rst.ret = rst.results
               /\ rst.ret = IsolatedRecords(rfile.lines)

\* the call has returned the empty list from its handler with a record
\* accumulated, a line that json.loads rejected having been skipped before
C27_Witness ==
    /\ rst.pc = "done"
    /\ rst.caught # "none"
    /\ rst.ret = <<>>
    /\ rst.results # <<>>
    /\ \E i \in DOMAIN rfile.lines : rfile.lines[i].kind = "bad"

(***************************************************************************)
(* C28.  The analyzer runs its stages in the order load, aggregate, merge, *)
(* metrics, plots, save, each at most once and none before the one before  *)
(* it; the API is started only after analyze has returned its metrics,     *)
(* that is after the save.  When the processed data is missing or empty,   *)
(* or the aggregate is empty, analyze returns None without going on to the *)
(* merge; then no merged table, metrics file or plot is written, the API   *)
(* is never started, and main returns 1.                                   *)
(***************************************************************************)
StageOrder ==
    <<"load", "load_colcap", "aggregate", "merge", "metrics", "plots", "save">>

StagesInOrder ==
    /\ \E k \in 0..Len(StageOrder) : run.trail = SubSeq(StageOrder, 1, k)
    /\ run.api => run.analyze = "metrics" /\ Done("save")
    /\ run.analyze = "metrics" => Done("save")
    /\ (\/ Done("load") /\ empty(df_processed)
        \/ Done("aggregate") /\ empty(daily_agg)) =>
           run.analyze = "None" /\ ~Done("merge")
    /\ run.analyze = "None" =>
           /\ disk.written = {}
           /\ ~run.api
           /\ run.main \in {"none", "1"}

C28_StagesAndGate ==
    /\ []StagesInOrder
    /\ (run.analyze = "None") ~> (run.main = "1")

\* analyze returned None because the aggregate was empty, and main has
\* returned 1
C28_Witness ==
    /\ run.analyze = "None"
    /\ Done("aggregate")
    /\ run.main = "1"
    /\ ~run.api
    /\ disk.written = {}

(***************************************************************************)
(* C29.  Once stop_monitoring has returned (and until start_monitoring is  *)
(* called again) no monitor thread is running and no entry is appended to  *)
(* system_metrics.  Two calls of start_monitoring with no stop between     *)
(* them refute it: the first thread is no longer known to the collector,   *)
(* stop_monitoring joins the second only, and the first may still be in    *)
(* its loop and append an entry afterwards.                                *)
(***************************************************************************)
C29_StopStopsMonitoring ==
    mc.stopped =>
        /\ \A t \in DOMAIN mc.threads : mc.threads[t] = "done"
        /\ Len(mc.system_metrics) = mc.len_at_stop

(***************************************************************************)
(* C30.  The scraper's doc_id is always the number of collected noticias   *)
(* plus one, and the ids of the noticias are the distinct strings "1",     *)
(* "2", ... "n" in the order of collection: an entry that is skipped (no   *)
(* date, date out of range, feed invalid) takes no id.                     *)
(***************************************************************************)
C30_IdsAreSequential ==
    /\ scr.doc_id = Len(scr.noticias) + 1
    /\ \A i \in DOMAIN scr.noticias : scr.noticias[i].id = str(i)
    /\ \A i, j \in DOMAIN scr.noticias :
           i # j => scr.noticias[i].id # scr.noticias[j].id

\* ten noticias are collected, the last two from the first and the third
\* entry of the last feed, its second entry having been skipped
C30_Witness ==
    /\ Len(scr.noticias) = 10
    /\ scr.noticias[10].id = <<"1", "0">>
    /\ scr.noticias[10].source = RSS_FEEDS[3]
    /\ scr.noticias[10].entry = 3
    /\ scr.noticias[9].source = RSS_FEEDS[3]
    /\ scr.noticias[9].entry = 1

=============================================================================
